---- MODULE Spec2Model ----
(***************************************************************************)
(* A model of ink-sdl: the ANSI escape-sequence parser, the glyph cache,   *)
(* the rendering coordinator, the input bridge, the stream adapters and    *)
(* the window's event loop.                                                *)
(*                                                                         *)
(* Strings are sequences of one-character strings; the control characters  *)
(* are written "ESC", "LF", "CR" and "TAB".  Colours are records           *)
(* [r, g, b].                                                              *)
(***************************************************************************)
EXTENDS Integers, Sequences, FiniteSets, TLC

VARIABLES
    ansiParser,     \* AnsiParser fields: cursorRow, cursorCol, fgColor, bgColor, bold
    prevParser,     \* parser harness: the parser's fields before the last parse() call
    input,          \* parser harness: the argument of the last parse() call
    commands,       \* parser harness: the DrawCommand[] the last parse() call returned
    parsePc,        \* parser harness: "idle", or "returned" while a result is held
    splitAt,        \* split experiment: the number of characters in the first chunk
    splitPc,        \* split experiment: "off", "start", "first", "second", "done"
    placed,         \* split experiment: the cells written by the chunked parser
    batchParser,    \* split experiment: the fresh parser that parses the whole input
    batchPlaced,    \* split experiment: the cells written by the fresh parser
    sdl,            \* the native side: handles created and destroyed, the event
                    \* queue, the window's size, the display's scale and rate
    node,           \* the Node.js process: interval timers, signals, liveness
    textRenderer,   \* TextRenderer fields: fonts, glyphCache, accessCounter, ...
    uiRenderer,     \* SdlUiRenderer fields
    inputBridge,    \* InputBridge fields: the three modifier flags
    inputStream,    \* SdlInputStream fields and what it handed to its reader
    sdlWindow,      \* SdlWindow fields
    observed,       \* what the last operation did, recorded for the properties
    opsUsed         \* the number of environment steps taken so far

parserVars == <<ansiParser, prevParser, input, commands, parsePc>>

splitVars == <<splitAt, splitPc, placed, batchParser, batchPlaced>>

windowVars == <<sdl, node, textRenderer, uiRenderer, inputBridge, inputStream,
                sdlWindow, observed, opsUsed>>

vars == <<ansiParser, prevParser, input, commands, parsePc,
          splitAt, splitPc, placed, batchParser, batchPlaced,
          sdl, node, textRenderer, uiRenderer, inputBridge, inputStream,
          sdlWindow, observed, opsUsed>>

\* null, and the null handle
NULL == 0

\* the window system is not part of the experiment
WindowOff ==
    /\ sdl = NULL
    /\ node = NULL
    /\ textRenderer = NULL
    /\ uiRenderer = NULL
    /\ inputBridge = NULL
    /\ inputStream = NULL
    /\ sdlWindow = NULL
    /\ observed = NULL
    /\ opsUsed = 0

\* ------------------------------------------------------------------------
\* Generic helpers
\* ------------------------------------------------------------------------

Max(a, b) == IF a >= b THEN a ELSE b

Min(a, b) == IF a <= b THEN a ELSE b

\* Math.ceil(a / b) for b > 0
CeilDiv(a, b) == -((-a) \div b)

\* " ".repeat(n)
Repeat(c, n) == [k \in 1..n |-> c]

\* ------------------------------------------------------------------------
\* AnsiParser constants (src/src/AnsiParser/consts.ts)
\* ------------------------------------------------------------------------

COLOR_CHANNEL_MAX == 255

DEFAULT_FG == [r |-> 255, g |-> 255, b |-> 255]

DEFAULT_BG == [r |-> 0, g |-> 0, b |-> 0]

ANSI_STANDARD_COLOR_COUNT == 8

ANSI_TAB_WIDTH == 8

ANSI_ERASE_ENTIRE_SCREEN == 2

ANSI_ERASE_TO_END_AND_BEYOND == 3

ANSI_EXTENDED_COLOR_OFFSET_256 == 2

ANSI_EXTENDED_RGB_MIN_PARAMS == 3

ANSI_EXTENDED_COLOR_OFFSET_RGB == 4

ANSI_RGB_R_OFFSET == 1

ANSI_RGB_G_OFFSET == 2

ANSI_RGB_B_OFFSET == 3

ANSI_CUBE_RED_MULTIPLIER == 36

ANSI_256_COLOR_LEVELS == 6

ANSI_CUBE_STEP == 40

ANSI_CUBE_BASE == 55

ANSI_COLORS_NORMAL ==
    << [r |-> 0,   g |-> 0,   b |-> 0],
       [r |-> 187, g |-> 0,   b |-> 0],
       [r |-> 0,   g |-> 187, b |-> 0],
       [r |-> 187, g |-> 187, b |-> 0],
       [r |-> 0,   g |-> 0,   b |-> 187],
       [r |-> 187, g |-> 0,   b |-> 187],
       [r |-> 0,   g |-> 187, b |-> 187],
       [r |-> 187, g |-> 187, b |-> 187] >>

ANSI_COLORS_BRIGHT ==
    << [r |-> 85,  g |-> 85,  b |-> 85],
       [r |-> 255, g |-> 85,  b |-> 85],
       [r |-> 85,  g |-> 255, b |-> 85],
       [r |-> 255, g |-> 255, b |-> 85],
       [r |-> 85,  g |-> 85,  b |-> 255],
       [r |-> 255, g |-> 85,  b |-> 255],
       [r |-> 85,  g |-> 255, b |-> 255],
       [r |-> 255, g |-> 255, b |-> 255] >>

SGR_RESET == 0

SGR_BOLD == 1

SGR_DIM == 2

SGR_ITALIC == 3

SGR_UNDERLINE == 4

SGR_REVERSE == 7

SGR_STRIKETHROUGH == 9

SGR_NORMAL_INTENSITY == 22

SGR_NO_ITALIC == 23

SGR_NO_UNDERLINE == 24

SGR_NO_REVERSE == 27

SGR_NO_STRIKETHROUGH == 29

SGR_FG_BASE == 30

SGR_FG_END == 37

SGR_FG_DEFAULT == 39

SGR_BG_BASE == 40

SGR_BG_END == 47

SGR_BG_DEFAULT == 49

SGR_FG_BRIGHT_BASE == 90

SGR_FG_BRIGHT_END == 97

SGR_BG_BRIGHT_BASE == 100

SGR_BG_BRIGHT_END == 107

SGR_EXTENDED == 38

SGR_EXTENDED_BG == 48

EXTENDED_256 == 5

EXTENDED_RGB == 2

COLOR_CUBE_START == 16

COLOR_CUBE_END == 231

GRAYSCALE_START == 232

GRAYSCALE_END == 255

GRAYSCALE_STEP == 10

GRAYSCALE_BASE == 8

\* ------------------------------------------------------------------------
\* JavaScript string primitives used by the parser
\* ------------------------------------------------------------------------

\* /[A-Za-z]/
Letters ==
    {"A","B","C","D","E","F","G","H","I","J","K","L","M",
     "N","O","P","Q","R","S","T","U","V","W","X","Y","Z",
     "a","b","c","d","e","f","g","h","i","j","k","l","m",
     "n","o","p","q","r","s","t","u","v","w","x","y","z"}

IsLetter(c) == c \in Letters

DigitChars == <<"0","1","2","3","4","5","6","7","8","9">>

IsDigit(c) == \E k \in 1..10 : DigitChars[k] = c

DigitValue(c) == (CHOOSE k \in 1..10 : DigitChars[k] = c) - 1

\* the characters parseInt skips before the number
WhiteSpace == {" ", "LF", "CR", "TAB"}

\* the value of an element that JavaScript reads as undefined
undefinedColor == [r |-> -1, g |-> -1, b |-> -1]

NaN == [nan |-> TRUE, value |-> 0]

RECURSIVE SkipWhiteSpace(_, _)
SkipWhiteSpace(s, k) ==
    IF k <= Len(s) /\ s[k] \in WhiteSpace THEN SkipWhiteSpace(s, k + 1) ELSE k

RECURSIVE ReadDigits(_, _, _)
ReadDigits(s, k, acc) ==
    IF k <= Len(s) /\ IsDigit(s[k])
    THEN ReadDigits(s, k + 1, acc * 10 + DigitValue(s[k]))
    ELSE acc

\* parseInt(s): leading white space, an optional sign, then decimal digits up
\* to the first other character; NaN when there is no digit
ParseInt(s) ==
    LET k0   == SkipWhiteSpace(s, 1)
        neg  == k0 <= Len(s) /\ s[k0] = "-"
        sign == k0 <= Len(s) /\ s[k0] \in {"-", "+"}
        k1   == IF sign THEN k0 + 1 ELSE k0
    IN  IF k1 <= Len(s) /\ IsDigit(s[k1])
        THEN [nan |-> FALSE,
              value |-> IF neg THEN -ReadDigits(s, k1, 0) ELSE ReadDigits(s, k1, 0)]
        ELSE NaN

HexChars ==
    <<"0","1","2","3","4","5","6","7","8","9","a","b","c","d","e","f">>

UpperHexChars ==
    <<"0","1","2","3","4","5","6","7","8","9","A","B","C","D","E","F">>

IsHexDigit(c) == \E k \in 1..16 : HexChars[k] = c \/ UpperHexChars[k] = c

HexValue(c) == (CHOOSE k \in 1..16 : HexChars[k] = c \/ UpperHexChars[k] = c) - 1

RECURSIVE ReadHexDigits(_, _, _)
ReadHexDigits(s, k, acc) ==
    IF k <= Len(s) /\ IsHexDigit(s[k])
    THEN ReadHexDigits(s, k + 1, acc * 16 + HexValue(s[k]))
    ELSE acc

\* parseInt(s, 16): leading white space, an optional sign, an optional 0x,
\* then hexadecimal digits up to the first other character; NaN when there
\* is no digit
ParseInt16(s) ==
    LET k0   == SkipWhiteSpace(s, 1)
        neg  == k0 <= Len(s) /\ s[k0] = "-"
        sign == k0 <= Len(s) /\ s[k0] \in {"-", "+"}
        k1   == IF sign THEN k0 + 1 ELSE k0
        pre  == k1 + 1 <= Len(s) /\ s[k1] = "0" /\ s[k1 + 1] \in {"x", "X"}
        k2   == IF pre THEN k1 + 2 ELSE k1
    IN  IF k2 <= Len(s) /\ IsHexDigit(s[k2])
        THEN [nan |-> FALSE,
              value |-> IF neg THEN -ReadHexDigits(s, k2, 0)
                        ELSE ReadHexDigits(s, k2, 0)]
        ELSE NaN

\* n || d for a number n: NaN and 0 are falsy
OrElse(n, d) == IF n.nan \/ n.value = 0 THEN d ELSE n.value

\* the 1-based index of the first sep in s at or after k, or 0
RECURSIVE IndexOf(_, _, _)
IndexOf(s, sep, k) ==
    IF k > Len(s) THEN 0
    ELSE IF s[k] = sep THEN k
    ELSE IndexOf(s, sep, k + 1)

\* s.split(sep): never empty, "" gives [""]
RECURSIVE Split(_, _)
Split(s, sep) ==
    LET k == IndexOf(s, sep, 1)
    IN  IF k = 0 THEN <<s>>
        ELSE <<SubSeq(s, 1, k - 1)>> \o Split(SubSeq(s, k + 1, Len(s)), sep)

\* ------------------------------------------------------------------------
\* AnsiParser (src/src/AnsiParser/index.ts)
\* ------------------------------------------------------------------------

NewAnsiParser ==
    [cursorRow |-> 1, cursorCol |-> 1,
     fgColor |-> DEFAULT_FG, bgColor |-> DEFAULT_BG, bold |-> FALSE]

\* ansi256ToRgb whose cube levels all use the step formula, level 0 included
ansi256ToRgb_NoZeroLevel(index) ==
    IF index < COLOR_CUBE_START
    THEN IF index < ANSI_STANDARD_COLOR_COUNT
         THEN IF index >= 0 THEN ANSI_COLORS_NORMAL[index + 1] ELSE undefinedColor
         ELSE ANSI_COLORS_BRIGHT[index - ANSI_STANDARD_COLOR_COUNT + 1]
    ELSE IF index <= COLOR_CUBE_END
    THEN LET cubeIndex == index - COLOR_CUBE_START
             r == cubeIndex \div ANSI_CUBE_RED_MULTIPLIER
             g == (cubeIndex % ANSI_CUBE_RED_MULTIPLIER) \div ANSI_256_COLOR_LEVELS
             b == cubeIndex % ANSI_256_COLOR_LEVELS
         IN  [r |-> r * ANSI_CUBE_STEP + ANSI_CUBE_BASE,
              g |-> g * ANSI_CUBE_STEP + ANSI_CUBE_BASE,
              b |-> b * ANSI_CUBE_STEP + ANSI_CUBE_BASE]
    ELSE IF index <= GRAYSCALE_END
    THEN LET gray == (index - GRAYSCALE_START) * GRAYSCALE_STEP + GRAYSCALE_BASE
         IN  [r |-> gray, g |-> gray, b |-> gray]
    ELSE DEFAULT_FG

ansi256ToRgb(index) ==
    IF index < COLOR_CUBE_START
    THEN IF index < ANSI_STANDARD_COLOR_COUNT
         THEN IF index >= 0 THEN ANSI_COLORS_NORMAL[index + 1] ELSE undefinedColor
         ELSE ANSI_COLORS_BRIGHT[index - ANSI_STANDARD_COLOR_COUNT + 1]
    ELSE IF index <= COLOR_CUBE_END
    THEN LET cubeIndex == index - COLOR_CUBE_START
             r == cubeIndex \div ANSI_CUBE_RED_MULTIPLIER
             g == (cubeIndex % ANSI_CUBE_RED_MULTIPLIER) \div ANSI_256_COLOR_LEVELS
             b == cubeIndex % ANSI_256_COLOR_LEVELS
         IN  [r |-> IF r > 0 THEN r * ANSI_CUBE_STEP + ANSI_CUBE_BASE ELSE 0,
              g |-> IF g > 0 THEN g * ANSI_CUBE_STEP + ANSI_CUBE_BASE ELSE 0,
              b |-> IF b > 0 THEN b * ANSI_CUBE_STEP + ANSI_CUBE_BASE ELSE 0]
    ELSE IF index <= GRAYSCALE_END
    THEN LET gray == (index - GRAYSCALE_START) * GRAYSCALE_STEP + GRAYSCALE_BASE
         IN  [r |-> gray, g |-> gray, b |-> gray]
    ELSE DEFAULT_FG

\* The parse state is [p, commands, textBuffer]: the parser's fields, the
\* commands pushed so far and the pending run of printable characters.

\* flushText that advances the column by one instead of by the run's length
flushText_ColumnPlusOne(st) ==
    IF Len(st.textBuffer) > 0
    THEN [p |-> [st.p EXCEPT !.cursorCol = @ + 1],
          commands |-> Append(st.commands,
                              [type |-> "text", text |-> st.textBuffer,
                               row |-> st.p.cursorRow, col |-> st.p.cursorCol]),
          textBuffer |-> <<>>]
    ELSE st

\* flushText that puts the column after the run in the command
flushText_PositionAfter(st) ==
    IF Len(st.textBuffer) > 0
    THEN [p |-> [st.p EXCEPT !.cursorCol = @ + Len(st.textBuffer)],
          commands |-> Append(st.commands,
                              [type |-> "text", text |-> st.textBuffer,
                               row |-> st.p.cursorRow,
                               col |-> st.p.cursorCol + Len(st.textBuffer)]),
          textBuffer |-> <<>>]
    ELSE st

flushText(st) ==
    IF Len(st.textBuffer) > 0
    THEN [p |-> [st.p EXCEPT !.cursorCol = @ + Len(st.textBuffer)],
          commands |-> Append(st.commands,
                              [type |-> "text", text |-> st.textBuffer,
                               row |-> st.p.cursorRow, col |-> st.p.cursorCol]),
          textBuffer |-> <<>>]
    ELSE st

Push(st, cmd) == [st EXCEPT !.commands = Append(@, cmd)]

processCursorPosition(st, params) ==
    LET parts == Split(params, ";")
        row == OrElse(ParseInt(parts[1]), 1)
        col == OrElse(ParseInt(IF Len(parts) >= 2 THEN parts[2] ELSE <<"1">>), 1)
    IN  Push([st EXCEPT !.p.cursorRow = row, !.p.cursorCol = col],
             [type |-> "cursor_move", row |-> row, col |-> col])

\* processEraseDisplay that knows mode 2 only
processEraseDisplay_Mode2Only(st, params) ==
    LET mode == OrElse(ParseInt(params), 0)
    IN  IF mode = ANSI_ERASE_ENTIRE_SCREEN
        THEN [Push(st, [type |-> "clear_screen"])
                EXCEPT !.p.cursorRow = 1, !.p.cursorCol = 1]
        ELSE st

processEraseDisplay(st, params) ==
    LET mode == OrElse(ParseInt(params), 0)
    IN  IF mode = ANSI_ERASE_ENTIRE_SCREEN \/ mode = ANSI_ERASE_TO_END_AND_BEYOND
        THEN [Push(st, [type |-> "clear_screen"])
                EXCEPT !.p.cursorRow = 1, !.p.cursorCol = 1]
        ELSE st

processEraseLine(st, params) ==
    LET mode == OrElse(ParseInt(params), 0)
    IN  Push(st, [type |-> "clear_line", row |-> st.p.cursorRow,
                  col |-> IF mode = 0 THEN st.p.cursorCol ELSE 1])

\* resetStyle that leaves the bold flag as it is
resetStyle_KeepsBold(st) ==
    LET s1 == [st EXCEPT !.p.fgColor = DEFAULT_FG, !.p.bgColor = DEFAULT_BG]
    IN  Push(Push(Push(s1, [type |-> "reset_style"]),
                  [type |-> "set_fg", color |-> DEFAULT_FG]),
             [type |-> "set_bg", color |-> DEFAULT_BG])

resetStyle(st) ==
    LET s1 == [st EXCEPT !.p.fgColor = DEFAULT_FG, !.p.bgColor = DEFAULT_BG,
                         !.p.bold = FALSE]
    IN  Push(Push(Push(s1, [type |-> "reset_style"]),
                  [type |-> "set_fg", color |-> DEFAULT_FG]),
             [type |-> "set_bg", color |-> DEFAULT_BG])

\* parseExtendedColor that takes the RGB parameters as they are
parseExtendedColor_Unclamped(codes, startIndex) ==
    IF startIndex >= Len(codes)
    THEN [color |-> undefinedColor, nextIndex |-> startIndex]
    ELSE LET mode == codes[startIndex + 1]
         IN  IF mode = EXTENDED_256 /\ startIndex + ANSI_RGB_R_OFFSET < Len(codes)
             THEN [color |-> ansi256ToRgb(codes[startIndex + ANSI_RGB_R_OFFSET + 1]),
                   nextIndex |-> startIndex + ANSI_EXTENDED_COLOR_OFFSET_256]
             ELSE IF mode = EXTENDED_RGB
                     /\ startIndex + ANSI_EXTENDED_RGB_MIN_PARAMS < Len(codes)
             THEN [color |->
                     [r |-> codes[startIndex + ANSI_RGB_R_OFFSET + 1],
                      g |-> codes[startIndex + ANSI_RGB_G_OFFSET + 1],
                      b |-> codes[startIndex + ANSI_RGB_B_OFFSET + 1]],
                   nextIndex |-> startIndex + ANSI_EXTENDED_COLOR_OFFSET_RGB]
             ELSE [color |-> undefinedColor, nextIndex |-> startIndex + 1]

\* codes is the 0-based JavaScript array held as a 1-based sequence
parseExtendedColor(codes, startIndex) ==
    IF startIndex >= Len(codes)
    THEN [color |-> undefinedColor, nextIndex |-> startIndex]
    ELSE LET mode == codes[startIndex + 1]
         IN  IF mode = EXTENDED_256 /\ startIndex + ANSI_RGB_R_OFFSET < Len(codes)
             THEN [color |-> ansi256ToRgb(codes[startIndex + ANSI_RGB_R_OFFSET + 1]),
                   nextIndex |-> startIndex + ANSI_EXTENDED_COLOR_OFFSET_256]
             ELSE IF mode = EXTENDED_RGB
                     /\ startIndex + ANSI_EXTENDED_RGB_MIN_PARAMS < Len(codes)
             THEN [color |->
                     [r |-> Min(COLOR_CHANNEL_MAX,
                                Max(0, codes[startIndex + ANSI_RGB_R_OFFSET + 1])),
                      g |-> Min(COLOR_CHANNEL_MAX,
                                Max(0, codes[startIndex + ANSI_RGB_G_OFFSET + 1])),
                      b |-> Min(COLOR_CHANNEL_MAX,
                                Max(0, codes[startIndex + ANSI_RGB_B_OFFSET + 1]))],
                   nextIndex |-> startIndex + ANSI_EXTENDED_COLOR_OFFSET_RGB]
             ELSE [color |-> undefinedColor, nextIndex |-> startIndex + 1]

\* sgrCode where a base foreground code ignores the bold flag
sgrCode_BoldIgnored(st, codes, i) ==
    LET code == codes[i + 1]
        flag(t, e) == [st |-> Push(st, [type |-> t, enabled |-> e]), next |-> i + 1]
        fg(c) == [st |-> Push([st EXCEPT !.p.fgColor = c],
                              [type |-> "set_fg", color |-> c]),
                  next |-> i + 1]
        bg(c) == [st |-> Push([st EXCEPT !.p.bgColor = c],
                              [type |-> "set_bg", color |-> c]),
                  next |-> i + 1]
    IN  IF code = SGR_RESET THEN [st |-> resetStyle(st), next |-> i + 1]
        ELSE IF code = SGR_BOLD
        THEN [st |-> Push([st EXCEPT !.p.bold = TRUE],
                          [type |-> "set_bold", enabled |-> TRUE]),
              next |-> i + 1]
        ELSE IF code = SGR_DIM THEN flag("set_dim", TRUE)
        ELSE IF code = SGR_ITALIC THEN flag("set_italic", TRUE)
        ELSE IF code = SGR_UNDERLINE THEN flag("set_underline", TRUE)
        ELSE IF code = SGR_REVERSE THEN flag("set_reverse", TRUE)
        ELSE IF code = SGR_STRIKETHROUGH THEN flag("set_strikethrough", TRUE)
        ELSE IF code = SGR_NORMAL_INTENSITY
        THEN [st |-> Push(Push([st EXCEPT !.p.bold = FALSE],
                               [type |-> "set_bold", enabled |-> FALSE]),
                          [type |-> "set_dim", enabled |-> FALSE]),
              next |-> i + 1]
        ELSE IF code = SGR_NO_ITALIC THEN flag("set_italic", FALSE)
        ELSE IF code = SGR_NO_UNDERLINE THEN flag("set_underline", FALSE)
        ELSE IF code = SGR_NO_REVERSE THEN flag("set_reverse", FALSE)
        ELSE IF code = SGR_NO_STRIKETHROUGH THEN flag("set_strikethrough", FALSE)
        ELSE IF code >= SGR_FG_BASE /\ code <= SGR_FG_END
        THEN fg(ANSI_COLORS_NORMAL[code - SGR_FG_BASE + 1])
        ELSE IF code = SGR_FG_DEFAULT THEN fg(DEFAULT_FG)
        ELSE IF code >= SGR_BG_BASE /\ code <= SGR_BG_END
        THEN bg(ANSI_COLORS_NORMAL[code - SGR_BG_BASE + 1])
        ELSE IF code = SGR_BG_DEFAULT THEN bg(DEFAULT_BG)
        ELSE IF code >= SGR_FG_BRIGHT_BASE /\ code <= SGR_FG_BRIGHT_END
        THEN fg(ANSI_COLORS_BRIGHT[code - SGR_FG_BRIGHT_BASE + 1])
        ELSE IF code >= SGR_BG_BRIGHT_BASE /\ code <= SGR_BG_BRIGHT_END
        THEN bg(ANSI_COLORS_BRIGHT[code - SGR_BG_BRIGHT_BASE + 1])
        ELSE IF code = SGR_EXTENDED
        THEN LET result == parseExtendedColor(codes, i + 1)
             IN  [st |-> IF result.color # undefinedColor
                         THEN Push([st EXCEPT !.p.fgColor = result.color],
                                   [type |-> "set_fg", color |-> result.color])
                         ELSE st,
                  next |-> result.nextIndex]
        ELSE IF code = SGR_EXTENDED_BG
        THEN LET result == parseExtendedColor(codes, i + 1)
             IN  [st |-> IF result.color # undefinedColor
                         THEN Push([st EXCEPT !.p.bgColor = result.color],
                                   [type |-> "set_bg", color |-> result.color])
                         ELSE st,
                  next |-> result.nextIndex]
        ELSE [st |-> st, next |-> i + 1]

\* one iteration of the while loop of processSGR at index i; returns the
\* state and the index the next iteration starts at
sgrCode(st, codes, i) ==
    LET code == codes[i + 1]
        flag(t, e) == [st |-> Push(st, [type |-> t, enabled |-> e]), next |-> i + 1]
        fg(c) == [st |-> Push([st EXCEPT !.p.fgColor = c],
                              [type |-> "set_fg", color |-> c]),
                  next |-> i + 1]
        bg(c) == [st |-> Push([st EXCEPT !.p.bgColor = c],
                              [type |-> "set_bg", color |-> c]),
                  next |-> i + 1]
    IN  IF code = SGR_RESET THEN [st |-> resetStyle(st), next |-> i + 1]
        ELSE IF code = SGR_BOLD
        THEN [st |-> Push([st EXCEPT !.p.bold = TRUE],
                          [type |-> "set_bold", enabled |-> TRUE]),
              next |-> i + 1]
        ELSE IF code = SGR_DIM THEN flag("set_dim", TRUE)
        ELSE IF code = SGR_ITALIC THEN flag("set_italic", TRUE)
        ELSE IF code = SGR_UNDERLINE THEN flag("set_underline", TRUE)
        ELSE IF code = SGR_REVERSE THEN flag("set_reverse", TRUE)
        ELSE IF code = SGR_STRIKETHROUGH THEN flag("set_strikethrough", TRUE)
        ELSE IF code = SGR_NORMAL_INTENSITY
        THEN [st |-> Push(Push([st EXCEPT !.p.bold = FALSE],
                               [type |-> "set_bold", enabled |-> FALSE]),
                          [type |-> "set_dim", enabled |-> FALSE]),
              next |-> i + 1]
        ELSE IF code = SGR_NO_ITALIC THEN flag("set_italic", FALSE)
        ELSE IF code = SGR_NO_UNDERLINE THEN flag("set_underline", FALSE)
        ELSE IF code = SGR_NO_REVERSE THEN flag("set_reverse", FALSE)
        ELSE IF code = SGR_NO_STRIKETHROUGH THEN flag("set_strikethrough", FALSE)
        ELSE IF code >= SGR_FG_BASE /\ code <= SGR_FG_END
        THEN fg(IF st.p.bold THEN ANSI_COLORS_BRIGHT[code - SGR_FG_BASE + 1]
                ELSE ANSI_COLORS_NORMAL[code - SGR_FG_BASE + 1])
        ELSE IF code = SGR_FG_DEFAULT THEN fg(DEFAULT_FG)
        ELSE IF code >= SGR_BG_BASE /\ code <= SGR_BG_END
        THEN bg(ANSI_COLORS_NORMAL[code - SGR_BG_BASE + 1])
        ELSE IF code = SGR_BG_DEFAULT THEN bg(DEFAULT_BG)
        ELSE IF code >= SGR_FG_BRIGHT_BASE /\ code <= SGR_FG_BRIGHT_END
        THEN fg(ANSI_COLORS_BRIGHT[code - SGR_FG_BRIGHT_BASE + 1])
        ELSE IF code >= SGR_BG_BRIGHT_BASE /\ code <= SGR_BG_BRIGHT_END
        THEN bg(ANSI_COLORS_BRIGHT[code - SGR_BG_BRIGHT_BASE + 1])
        ELSE IF code = SGR_EXTENDED
        THEN LET result == parseExtendedColor(codes, i + 1)
             IN  [st |-> IF result.color # undefinedColor
                         THEN Push([st EXCEPT !.p.fgColor = result.color],
                                   [type |-> "set_fg", color |-> result.color])
                         ELSE st,
                  next |-> result.nextIndex]
        ELSE IF code = SGR_EXTENDED_BG
        THEN LET result == parseExtendedColor(codes, i + 1)
             IN  [st |-> IF result.color # undefinedColor
                         THEN Push([st EXCEPT !.p.bgColor = result.color],
                                   [type |-> "set_bg", color |-> result.color])
                         ELSE st,
                  next |-> result.nextIndex]
        ELSE [st |-> st, next |-> i + 1]

RECURSIVE sgrLoop(_, _, _)
sgrLoop(st, codes, i) ==
    IF i < Len(codes)
    THEN LET r == sgrCode(st, codes, i) IN sgrLoop(r.st, codes, r.next)
    ELSE st

processSGR(st, params) ==
    IF params = <<>> \/ params = <<"0">>
    THEN resetStyle(st)
    ELSE LET parts == Split(params, ";")
             codes == [k \in 1..Len(parts) |-> OrElse(ParseInt(parts[k]), 0)]
         IN  sgrLoop(st, codes, 0)

processEscapeSequence(st, params, command) ==
    LET n == OrElse(ParseInt(params), 1)
    IN  IF command \in {"H", "f"} THEN processCursorPosition(st, params)
        ELSE IF command = "J" THEN processEraseDisplay(st, params)
        ELSE IF command = "K" THEN processEraseLine(st, params)
        ELSE IF command = "m" THEN processSGR(st, params)
        ELSE IF command = "A" THEN [st EXCEPT !.p.cursorRow = Max(1, @ - n)]
        ELSE IF command = "B" THEN [st EXCEPT !.p.cursorRow = @ + n]
        ELSE IF command = "C" THEN [st EXCEPT !.p.cursorCol = @ + n]
        ELSE IF command = "D" THEN [st EXCEPT !.p.cursorCol = Max(1, @ - n)]
        ELSE IF command = "G" THEN [st EXCEPT !.p.cursorCol = n]
        ELSE st

\* nextTab without the + 1
tabStop_Multiple(cursorCol) ==
    CeilDiv(cursorCol, ANSI_TAB_WIDTH) * ANSI_TAB_WIDTH

\* nextTab: Math.ceil(this.cursorCol / ANSI_TAB_WIDTH) * ANSI_TAB_WIDTH + 1
tabStop(cursorCol) ==
    CeilDiv(cursorCol, ANSI_TAB_WIDTH) * ANSI_TAB_WIDTH + 1

\* the index of the first letter of s at or after j, or Len(s) + 1
RECURSIVE findTerminator(_, _)
findTerminator(s, j) ==
    IF j <= Len(s) /\ ~IsLetter(s[j]) THEN findTerminator(s, j + 1) ELSE j

\* the while loop of parse from the 1-based position i
RECURSIVE parseLoop(_, _, _)
parseLoop(st, s, i) ==
    IF i > Len(s) THEN st
    ELSE IF s[i] = "ESC" /\ i + 1 <= Len(s) /\ s[i + 1] = "["
    THEN LET f == flushText(st)
             j == findTerminator(s, i + 2)
         IN  IF j <= Len(s)
             THEN parseLoop(processEscapeSequence(f, SubSeq(s, i + 2, j - 1), s[j]),
                            s, j + 1)
             ELSE parseLoop(f, s, i + 1)
    ELSE IF s[i] = "LF"
    THEN parseLoop([flushText(st) EXCEPT !.p.cursorRow = @ + 1, !.p.cursorCol = 1],
                   s, i + 1)
    ELSE IF s[i] = "CR"
    THEN parseLoop([flushText(st) EXCEPT !.p.cursorCol = 1], s, i + 1)
    ELSE IF s[i] = "TAB"
    THEN LET f == flushText(st)
             nextTab == tabStop(f.p.cursorCol)
             spaces == nextTab - f.p.cursorCol
         IN  parseLoop(flushText([f EXCEPT !.textBuffer = Repeat(" ", spaces)]),
                       s, i + 1)
    ELSE parseLoop([st EXCEPT !.textBuffer = Append(@, s[i])], s, i + 1)

\* parse(input) on a parser with fields p: the fields afterwards and the
\* commands returned
parse(p, s) ==
    LET st == flushText(parseLoop([p |-> p, commands |-> <<>>, textBuffer |-> <<>>],
                                  s, 1))
    IN  [p |-> st.p, commands |-> st.commands]

\* ------------------------------------------------------------------------
\* The parser on its own: one parser, any sequence of parse() calls
\* ------------------------------------------------------------------------

\* the cursor values the parser harness explores
MaxCursor == 9

CSI(params, command) == <<"ESC", "[">> \o params \o <<command>>

CursorParams ==
    { <<>>, <<"0">>, <<"2">>, <<"-", "3">>, <<"9", "9">>,
      <<"0", ";", "0">>, <<"2", ";", "3">>, <<";", "2">>,
      <<"-", "1", ";", "-", "2">> }

CursorCommands == {"H", "f", "A", "B", "C", "D", "G"}

StyleInputs ==
    { CSI(<<>>, "m"), CSI(<<"1">>, "m"), CSI(<<"3", "1">>, "m"),
      CSI(<<"2", "2">>, "m"), CSI(<<"4", "4">>, "m"),
      CSI(<<"2">>, "J"), CSI(<<>>, "J"), CSI(<<>>, "K"), CSI(<<"1">>, "K"),
      CSI(<<"3">>, "J"), CSI(<<"1">>, "J"),
      CSI(<<>>, "s"), CSI(<<"?", "2", "5">>, "l"),
      CSI(<<"9", "9", "9">>, "m"), CSI(<<"?">>, "m"), CSI(<<";", ";">>, "m"),
      CSI(<<"3", "8", ";", "5", ";", "-", "1">>, "m"),
      CSI(<<"3", "8", ";", "5", ";", "9", "9", "9">>, "m"),
      CSI(<<"3", "8", ";", "2", ";", "9", "9", "9", ";", "9", "9", "9", ";", "9", "9", "9">>, "m"),
      CSI(<<"4", "8", ";", "2", ";", "-", "5", ";", "-", "5", ";", "-", "5">>, "m") }

TextInputs ==
    { <<"a">>, <<"a", "b">>, <<"LF">>, <<"CR">>, <<"TAB">>, <<"ESC">>,
      <<"ESC", "X">>, <<"a", "LF", "b">>, <<"a", "b", "CR", "c">>,
      <<"a", "TAB", "b">> }

PartialPrefixes == { <<>>, <<"a">>, <<"a", "b">>, <<"LF">> }

PartialParams == { <<>>, <<"3">>, <<"3", "1">>, <<"1", ";", "3">> }

\* inputs that end inside a CSI sequence
PartialInputs ==
    { pre \o <<"ESC", "[">> \o q : pre \in PartialPrefixes, q \in PartialParams }

ParserInputs ==
    { CSI(q, c) : q \in CursorParams, c \in CursorCommands }
        \cup StyleInputs \cup TextInputs \cup PartialInputs

InCursorRange(p) ==
    /\ p.cursorRow >= -MaxCursor /\ p.cursorRow <= MaxCursor
    /\ p.cursorCol >= -MaxCursor /\ p.cursorCol <= MaxCursor

ParserInit ==
    /\ ansiParser = NewAnsiParser
    /\ prevParser = NewAnsiParser
    /\ input = <<>>
    /\ commands = <<>>
    /\ parsePc = "idle"

SplitOff ==
    /\ splitAt = 0
    /\ splitPc = "off"
    /\ placed = <<>>
    /\ batchParser = NewAnsiParser
    /\ batchPlaced = <<>>

\* a caller calls parse(s) on the parser
ParseCall(s) ==
    /\ parsePc = "idle"
    /\ LET r == parse(ansiParser, s)
       IN  /\ InCursorRange(r.p)
           /\ ansiParser' = r.p
           /\ commands' = r.commands
    /\ prevParser' = ansiParser
    /\ input' = s
    /\ parsePc' = "returned"
    /\ UNCHANGED splitVars
    /\ UNCHANGED windowVars

\* the caller takes the returned commands
TakeCommands ==
    /\ parsePc = "returned"
    /\ parsePc' = "idle"
    /\ input' = <<>>
    /\ commands' = <<>>
    /\ prevParser' = ansiParser
    /\ UNCHANGED <<ansiParser>>
    /\ UNCHANGED splitVars
    /\ UNCHANGED windowVars

InitParser == ParserInit /\ SplitOff /\ WindowOff

NextParser ==
    \/ \E s \in ParserInputs : ParseCall(s)
    \/ TakeCommands

SpecParser == InitParser /\ [][NextParser]_vars

\* ------------------------------------------------------------------------
\* The split experiment: parse(a) then parse(b) on one parser, and parse(a + b)
\* on a fresh parser
\* ------------------------------------------------------------------------

\* the longest input taken from all strings over SplitAlphabet
MaxSplitLen == 5

SplitAlphabet == {"ESC", "[", "3", "m", "H", "TAB"}

RECURSIVE StringsUpTo(_, _)
StringsUpTo(A, n) ==
    IF n = 0 THEN {<<>>}
    ELSE LET S == StringsUpTo(A, n - 1)
         IN  S \cup {Append(s, c) : s \in S, c \in A}

\* longer inputs: the streams of the spec's scenarios and of the parser's tests
SplitScenarios ==
    { <<"A", "LF", "B", "LF", "C">>,
      CSI(<<"3", "1">>, "m") \o <<"R", "e", "d">> \o CSI(<<"0">>, "m"),
      CSI(<<"1">>, "m") \o CSI(<<"3", "1">>, "m") \o <<"x">> \o CSI(<<"2", "2">>, "m"),
      <<"a", "b", "TAB", "c">> \o CSI(<<"2", ";", "5">>, "H") \o <<"d", "CR", "e">>,
      <<"a">> \o CSI(<<"2">>, "J") \o <<"b">> \o CSI(<<"4">>, "C") \o <<"c">>
          \o CSI(<<>>, "K"),
      CSI(<<"3", "8", ";", "5", ";", "1", "9", "6">>, "m") \o <<"x", "ESC", "y">>,
      <<"a", "ESC", "[", "3", "1">> }

SplitStrings == StringsUpTo(SplitAlphabet, MaxSplitLen) \cup SplitScenarios

\* the cells the text commands of cmds write, one <<row, col, char>> per
\* character, in order
RECURSIVE Cells(_)
Cells(cmds) ==
    IF cmds = <<>> THEN <<>>
    ELSE LET c == Head(cmds)
         IN  (IF c.type = "text"
              THEN [k \in 1..Len(c.text) |-> <<c.row, c.col + k - 1, c.text[k]>>]
              ELSE <<>>) \o Cells(Tail(cmds))

InitSplit ==
    /\ input \in SplitStrings
    /\ splitAt \in 0..Len(input)
    /\ splitPc = "start"
    /\ ansiParser = NewAnsiParser
    /\ prevParser = NewAnsiParser
    /\ commands = <<>>
    /\ parsePc = "idle"
    /\ placed = <<>>
    /\ batchParser = NewAnsiParser
    /\ batchPlaced = <<>>
    /\ WindowOff

\* parse(a) on the first parser
SplitFirst ==
    /\ splitPc = "start"
    /\ LET r == parse(ansiParser, SubSeq(input, 1, splitAt))
       IN  /\ ansiParser' = r.p
           /\ commands' = r.commands
           /\ placed' = placed \o Cells(r.commands)
    /\ prevParser' = ansiParser
    /\ splitPc' = "first"
    /\ UNCHANGED <<input, parsePc, splitAt, batchParser, batchPlaced>>
    /\ UNCHANGED windowVars

\* parse(b) on the first parser
SplitSecond ==
    /\ splitPc = "first"
    /\ LET r == parse(ansiParser, SubSeq(input, splitAt + 1, Len(input)))
       IN  /\ ansiParser' = r.p
           /\ commands' = r.commands
           /\ placed' = placed \o Cells(r.commands)
    /\ prevParser' = ansiParser
    /\ splitPc' = "second"
    /\ UNCHANGED <<input, parsePc, splitAt, batchParser, batchPlaced>>
    /\ UNCHANGED windowVars

\* parse(a + b) on a fresh parser
SplitWhole ==
    /\ splitPc = "second"
    /\ LET r == parse(NewAnsiParser, input)
       IN  /\ batchParser' = r.p
           /\ batchPlaced' = Cells(r.commands)
    /\ splitPc' = "done"
    /\ UNCHANGED <<ansiParser, prevParser, input, commands, parsePc, splitAt, placed>>
    /\ UNCHANGED windowVars

NextSplit == SplitFirst \/ SplitSecond \/ SplitWhole

SpecSplit == InitSplit /\ [][NextSplit]_vars

\* ------------------------------------------------------------------------
\* Claims about the parser on its own
\* ------------------------------------------------------------------------

\* C1: after any sequence of parse() calls the parser's cursor satisfies
\* row >= 1 and col >= 1.
C1_CursorAtLeastOne ==
    ansiParser.cursorRow >= 1 /\ ansiParser.cursorCol >= 1

\* the position of the ESC of the CSI sequence that s ends inside, or 0 when
\* the scan of s does not end inside a CSI sequence
RECURSIVE PartialCsiStart(_, _)
PartialCsiStart(s, i) ==
    IF i > Len(s) THEN 0
    ELSE IF s[i] = "ESC" /\ i + 1 <= Len(s) /\ s[i + 1] = "["
    THEN LET j == findTerminator(s, i + 2)
         IN  IF j <= Len(s) THEN PartialCsiStart(s, j + 1) ELSE i
    ELSE PartialCsiStart(s, i + 1)

EndsInsideCsi(s) == PartialCsiStart(s, 1) > 0

BeforePartialCsi(s) == SubSeq(s, 1, PartialCsiStart(s, 1) - 1)

\* the characters of the text commands of cmds, in order
RECURSIVE TextOf(_)
TextOf(cmds) ==
    IF cmds = <<>> THEN <<>>
    ELSE (IF Head(cmds).type = "text" THEN Head(cmds).text ELSE <<>>)
             \o TextOf(Tail(cmds))

\* C3: when the input of parse() ends inside a CSI sequence the partial
\* sequence is dropped: the text commands hold the text of the input before
\* the sequence and nothing else, and the cursor column is where that text
\* alone leaves it.
C3_PartialCsiDropped ==
    (parsePc = "returned" /\ EndsInsideCsi(input)) =>
        LET ref == parse(prevParser, BeforePartialCsi(input))
        IN  /\ TextOf(commands) = TextOf(ref.commands)
            /\ ansiParser.cursorCol = ref.p.cursorCol

\* the split after p characters of s separates two characters of one escape
\* sequence: a CSI sequence runs from its ESC to its terminating letter, or
\* to the end of s when it has none
RECURSIVE SplitInsideEscape(_, _, _)
SplitInsideEscape(s, p, i) ==
    IF i > Len(s) THEN FALSE
    ELSE IF s[i] = "ESC" /\ i + 1 <= Len(s) /\ s[i + 1] = "["
    THEN LET j == findTerminator(s, i + 2)
             last == Min(j, Len(s))
         IN  (i <= p /\ p < last) \/ SplitInsideEscape(s, p, last + 1)
    ELSE SplitInsideEscape(s, p, i + 1)

\* C2: for every split of an input outside its escape sequences, parse(a) then
\* parse(b) on one parser leaves the cursor and style state, and writes the
\* text characters to the cells, that parse(a + b) on a fresh parser does.
C2_SplitEquivalent ==
    (splitPc = "done" /\ ~SplitInsideEscape(input, splitAt, 1)) =>
        /\ ansiParser = batchParser
        /\ placed = batchPlaced

\* a run of text cut in two after a completed CSI sequence
C2_Witness ==
    /\ splitPc = "done"
    /\ ~SplitInsideEscape(input, splitAt, 1)
    /\ splitAt > 0 /\ splitAt < Len(input)
    /\ input[splitAt] \in Letters /\ input[splitAt + 1] \in Letters
    /\ \E i \in 1..splitAt : input[i] = "ESC"
    /\ ansiParser.fgColor # DEFAULT_FG
    /\ Len(placed) >= 2

\* ------------------------------------------------------------------------
\* The native side (SDL2 and SDL_ttf)
\*
\* The operations of the window system are operators on a world w: a record
\* of the objects' fields (w.win, w.ui, w.tr, w.ap, w.ib, w.is), the native
\* side (w.sdl), the Node.js process (w.node), the record of what happened
\* (w.obs), the value returned by the last call (w.ret), the result of
\* processEvents (w.polled) and the exception in flight (w.thrown, "none"
\* when there is none).
\*
\* A handle is an index into w.sdl.resources; an entry keeps what was
\* created, by whom, its size and how many times it has been destroyed.
\* Scale factors are held in hundredths (100 is 1.0).
\* ------------------------------------------------------------------------

newHandle(w, kind, owner, width, height) ==
    [w EXCEPT !.sdl.resources =
                  Append(@, [kind |-> kind, owner |-> owner, width |-> width,
                             height |-> height, destroys |-> 0]),
              !.ret = Len(w.sdl.resources) + 1]

releaseHandle(w, h) == [w EXCEPT !.sdl.resources[h].destroys = @ + 1]

destroyWindow(w, h) == releaseHandle(w, h)

destroyRenderer(w, h) == releaseHandle(w, h)

destroyTexture(w, h) == releaseHandle(w, h)

closeFont(w, h) == releaseHandle(w, h)

\* TTF_OpenFont gives a font or fails; the wrapper throws on failure
openFont(w, ptsize, ok) ==
    IF ok
    THEN newHandle(w, "font", "library", ptsize, ptsize)
    ELSE [w EXCEPT !.thrown = "SdlError"]

\* the size of "M" in a monospace font of the given point size
sizeText(w, font) ==
    [width |-> w.sdl.resources[font].width \div 2,
     height |-> w.sdl.resources[font].height]

\* Math.round(a / b) for a >= 0, b > 0
Round(a, b) == (2 * a + b) \div (2 * b)

\* ------------------------------------------------------------------------
\* TextRenderer (fonts and the glyph cache)
\* ------------------------------------------------------------------------

DEFAULT_FONT_SIZE == 16

\* 0.01, in hundredths
SCALE_FACTOR_EPSILON == 1

\* 0.75, in hundredths
EMOJI_FONT_SCALE == 75

\* the cache's capacity, 1000 in the source, scaled down for the model
MAX_GLYPH_CACHE_SIZE == 4

GLYPH_CACHE_EVICT_DIVISOR == 4

PACK_RED_SHIFT == 16

PACK_GREEN_SHIFT == 8

RECURSIVE Pow2(_)
Pow2(n) == IF n = 0 THEN 1 ELSE 2 * Pow2(n - 1)

\* the Map with no entries
EmptyCache == [k \in {} |-> NULL]

\* the key is the character, the packed colour and the italic flag; the
\* channels are in 0..255, so the bitwise or is a sum
getCacheKey(char, r, g, b, italic) ==
    [char |-> char,
     packedColor |-> r * Pow2(PACK_RED_SHIFT) + g * Pow2(PACK_GREEN_SHIFT) + b,
     italic |-> italic]

RECURSIVE destroyGlyphs(_, _, _)
destroyGlyphs(w, cache, keys) ==
    IF keys = {} THEN w
    ELSE LET k == CHOOSE x \in keys : TRUE
         IN  destroyGlyphs(destroyTexture(w, cache[k].texture), cache, keys \ {k})

clearCache_KeepsTextures(w) ==
    [w EXCEPT !.tr.glyphCache = EmptyCache, !.tr.accessCounter = 0]

clearCache(w) ==
    [destroyGlyphs(w, w.tr.glyphCache, DOMAIN w.tr.glyphCache)
        EXCEPT !.tr.glyphCache = EmptyCache, !.tr.accessCounter = 0]

\* the emoji font is on the machine or it is not (sdl.emojiFont)
loadFallbackFont(w) ==
    LET closed(v) ==
            IF v.tr.fallbackFont # NULL
            THEN [closeFont(v, v.tr.fallbackFont) EXCEPT !.tr.fallbackFont = NULL]
            ELSE v
        physicalSize == Round(w.tr.baseFontSize * w.tr.scaleFactor * EMOJI_FONT_SCALE,
                              100 * 100)
        opened(v) == [v EXCEPT !.tr.fallbackFont = v.ret]
        loaded(v) == IF ~v.sdl.emojiFont THEN v
                     ELSE opened(openFont(v, physicalSize, TRUE))
    IN  loaded(closed(w))

\* loadFont that keeps the glyph cache
loadFont_KeepsCache(w, ok) ==
    LET closed(v) ==
            IF v.tr.font # NULL
            THEN [closeFont(v, v.tr.font) EXCEPT !.tr.font = NULL]
            ELSE v
        physicalSize == Round(w.tr.baseFontSize * w.tr.scaleFactor, 100)
        measured(v, dims) == [v EXCEPT !.tr.font = v.ret,
                                       !.tr.charWidth = dims.width,
                                       !.tr.charHeight = dims.height]
        opened(v) == IF v.thrown # "none"
                     THEN [v EXCEPT !.thrown = "FontError"]
                     ELSE measured(v, sizeText(v, v.ret))
    IN  opened(openFont(closed(w), physicalSize, ok))

\* ok: whether TTF_OpenFont succeeds
loadFont(w, ok) ==
    LET closed(v) ==
            IF v.tr.font # NULL
            THEN [closeFont(v, v.tr.font) EXCEPT !.tr.font = NULL]
            ELSE v
        physicalSize == Round(w.tr.baseFontSize * w.tr.scaleFactor, 100)
        measured(v, dims) == [v EXCEPT !.tr.font = v.ret,
                                       !.tr.charWidth = dims.width,
                                       !.tr.charHeight = dims.height]
        opened(v) == IF v.thrown # "none"
                     THEN [v EXCEPT !.thrown = "FontError"]
                     ELSE measured(v, sizeText(v, v.ret))
    IN  opened(openFont(clearCache(closed(w)), physicalSize, ok))

\* new TextRenderer(renderer, { scaleFactor })
newTextRenderer(w, scaleFactor, ok) ==
    LET fields == [font |-> NULL, fallbackFont |-> NULL,
                   baseFontSize |-> DEFAULT_FONT_SIZE,
                   scaleFactor |-> scaleFactor,
                   glyphCache |-> EmptyCache, accessCounter |-> 0,
                   charWidth |-> 0, charHeight |-> 0]
        fallback(v) == IF v.thrown # "none" THEN v ELSE loadFallbackFont(v)
    IN  fallback(loadFont([w EXCEPT !.tr = fields], ok))

updateScaleFactor(w, scaleFactor, ok) ==
    LET diff == IF scaleFactor >= w.tr.scaleFactor
                THEN scaleFactor - w.tr.scaleFactor
                ELSE w.tr.scaleFactor - scaleFactor
        fallback(v) == IF v.thrown # "none" THEN v ELSE loadFallbackFont(v)
    IN  IF diff < SCALE_FACTOR_EPSILON
        THEN w
        ELSE fallback(loadFont([w EXCEPT !.tr.scaleFactor = scaleFactor], ok))

\* the keys of the n entries with the smallest lastUsed
take(cache, n) ==
    { k \in DOMAIN cache :
        Cardinality({ j \in DOMAIN cache : cache[j].lastUsed < cache[k].lastUsed }) < n }

\* evictOldGlyphs that removes the entries used last
evictOldGlyphs_Newest(w) ==
    LET cache == w.tr.glyphCache
        removeCount == MAX_GLYPH_CACHE_SIZE \div GLYPH_CACHE_EVICT_DIVISOR
        victims == { k \in DOMAIN cache :
                       Cardinality({ j \in DOMAIN cache :
                                       cache[j].lastUsed > cache[k].lastUsed })
                           < removeCount }
    IN  [destroyGlyphs(w, cache, victims)
            EXCEPT !.tr.glyphCache = [k \in DOMAIN cache \ victims |-> cache[k]]]

\* evictOldGlyphs that removes one entry fewer than the quarter
evictOldGlyphs_OneFewer(w) ==
    LET cache == w.tr.glyphCache
        removeCount == (MAX_GLYPH_CACHE_SIZE \div GLYPH_CACHE_EVICT_DIVISOR) - 1
        victims == take(cache, removeCount)
    IN  [destroyGlyphs(w, cache, victims)
            EXCEPT !.tr.glyphCache = [k \in DOMAIN cache \ victims |-> cache[k]]]

evictOldGlyphs(w) ==
    LET cache == w.tr.glyphCache
        removeCount == MAX_GLYPH_CACHE_SIZE \div GLYPH_CACHE_EVICT_DIVISOR
        victims == take(cache, removeCount)
    IN  [destroyGlyphs(w, cache, victims)
            EXCEPT !.tr.glyphCache = [k \in DOMAIN cache \ victims |-> cache[k]]]

\* getGlyph's null
noGlyph == [char |-> "", packedColor |-> -1, italic |-> FALSE]

\* getGlyph whose cache hit leaves the entry's lastUsed as it is
getGlyph_HitKeepsCounter(w, char, r, g, b, italic, ok) ==
    LET key == getCacheKey(char, r, g, b, italic)
        cache == w.tr.glyphCache
        full == Cardinality(DOMAIN cache) >= MAX_GLYPH_CACHE_SIZE
        glyph(texture) == [texture |-> texture, width |-> w.tr.charWidth,
                           height |-> w.tr.charHeight,
                           lastUsed |-> w.tr.accessCounter]
        inserted(v, kept, texture) ==
            [v EXCEPT !.tr.glyphCache =
                          [k \in DOMAIN kept \cup {key} |->
                              IF k = key THEN glyph(texture) ELSE kept[k]],
                      !.obs.glyph = IF full THEN "evicted" ELSE "inserted",
                      !.ret = key]
        evicted(v, texture) == inserted(v, v.tr.glyphCache, texture)
        counted(v) == IF full THEN evictOldGlyphs(v) ELSE v
        created(v) == evicted(counted([v EXCEPT !.tr.accessCounter = @ + 1]), v.ret)
    IN  IF key \in DOMAIN cache
        THEN [w EXCEPT !.tr.accessCounter = @ + 1,
                       !.obs.glyph = "hit",
                       !.ret = key]
        ELSE IF w.tr.font = NULL
        THEN [w EXCEPT !.obs.glyph = "no font", !.ret = noGlyph]
        ELSE IF ~ok
        THEN [w EXCEPT !.obs.glyph = "failed", !.ret = noGlyph]
        ELSE created(newHandle(w, "glyph", "library",
                               w.tr.charWidth, w.tr.charHeight))

\* ok: whether rasterising the character and creating its texture succeed
\* (renderTextBlended and createTextureFromSurface throw otherwise, and the
\* exception is caught here).  w.ret is the key of the glyph, or noGlyph.
getGlyph(w, char, r, g, b, italic, ok) ==
    LET key == getCacheKey(char, r, g, b, italic)
        cache == w.tr.glyphCache
        full == Cardinality(DOMAIN cache) >= MAX_GLYPH_CACHE_SIZE
        glyph(texture) == [texture |-> texture, width |-> w.tr.charWidth,
                           height |-> w.tr.charHeight,
                           lastUsed |-> w.tr.accessCounter]
        inserted(v, kept, texture) ==
            [v EXCEPT !.tr.glyphCache =
                          [k \in DOMAIN kept \cup {key} |->
                              IF k = key THEN glyph(texture) ELSE kept[k]],
                      !.obs.glyph = IF full THEN "evicted" ELSE "inserted",
                      !.ret = key]
        evicted(v, texture) == inserted(v, v.tr.glyphCache, texture)
        counted(v) == IF full THEN evictOldGlyphs(v) ELSE v
        created(v) == evicted(counted([v EXCEPT !.tr.accessCounter = @ + 1]), v.ret)
    IN  IF key \in DOMAIN cache
        THEN [w EXCEPT !.tr.glyphCache[key].lastUsed = w.tr.accessCounter,
                       !.tr.accessCounter = @ + 1,
                       !.obs.glyph = "hit",
                       !.ret = key]
        ELSE IF w.tr.font = NULL
        THEN [w EXCEPT !.obs.glyph = "no font", !.ret = noGlyph]
        ELSE IF ~ok
        THEN [w EXCEPT !.obs.glyph = "failed", !.ret = noGlyph]
        ELSE created(newHandle(w, "glyph", "library",
                               w.tr.charWidth, w.tr.charHeight))

\* SDL_RenderCopy and SDL_RenderFillRect draw on the current render target;
\* what is drawn on the window's own buffer is not kept
draw(w, op) ==
    IF w.sdl.target = NULL THEN w
    ELSE [w EXCEPT !.sdl.surface.ops = Append(@, op)]

\* renderChar that copies to the cell whether there is a glyph or not
renderChar_DrawsAlways(w, char, x, y, color, italic, ok) ==
    LET copied(v) == draw(v, [op |-> "glyph", key |-> v.ret, x |-> x, y |-> y])
    IN  copied(getGlyph(w, char, color.r, color.g, color.b, italic, ok))

renderChar(w, char, x, y, color, italic, ok) ==
    LET copied(v) ==
            IF v.ret = noGlyph
            THEN v
            ELSE draw(v, [op |-> "glyph", key |-> v.ret, x |-> x, y |-> y])
    IN  copied(getGlyph(w, char, color.r, color.g, color.b, italic, ok))

\* bad: the characters that cannot be rasterised
RECURSIVE TextRenderer_renderText(_, _, _, _, _, _, _)
TextRenderer_renderText(w, text, x, y, color, italic, bad) ==
    IF text = <<>> THEN w
    ELSE LET char == Head(text)
             w1 == IF char = " " THEN w
                   ELSE renderChar(w, char, x, y, color, italic, char \notin bad)
         IN  TextRenderer_renderText(w1, Tail(text), x + w.tr.charWidth, y,
                                     color, italic, bad)

TextRenderer_destroy(w) ==
    LET font(v) ==
            IF v.tr.font # NULL
            THEN [closeFont(v, v.tr.font) EXCEPT !.tr.font = NULL]
            ELSE v
        fallback(v) ==
            IF v.tr.fallbackFont # NULL
            THEN [closeFont(v, v.tr.fallbackFont) EXCEPT !.tr.fallbackFont = NULL]
            ELSE v
    IN  fallback(font(clearCache(w)))

\* ------------------------------------------------------------------------
\* InputBridge (key events to terminal sequences)
\*
\* A terminal sequence is the sequence of its character codes; null is
\* the sequence with no characters, which no translation returns.
\* ------------------------------------------------------------------------

SDLK_RETURN == 13

SDLK_ESCAPE == 27

SDLK_SPACE == 32

SDLK_BACKSPACE == 8

SDLK_TAB == 9

SDLK_DELETE == 127

SDLK_RIGHT == 1073741903

SDLK_LEFT == 1073741904

SDLK_DOWN == 1073741905

SDLK_UP == 1073741906

SDLK_HOME == 1073741898

SDLK_END == 1073741901

SDLK_PAGEUP == 1073741899

SDLK_PAGEDOWN == 1073741902

SDLK_F1 == 1073741882

SDLK_F12 == 1073741893

SDLK_LSHIFT == 1073742049

SDLK_RSHIFT == 1073742053

SDLK_LCTRL == 1073742048

SDLK_RCTRL == 1073742052

SDLK_LALT == 1073742050

SDLK_RALT == 1073742054

ASCII_A_LOWER == 97

ASCII_Z_LOWER == 122

ASCII_PRINTABLE_START == 32

ASCII_PRINTABLE_END == 126

CTRL_KEY_OFFSET == 96

ASCII_BRACKET_OPEN == 91

ASCII_BACKSLASH == 92

ASCII_BRACKET_CLOSE == 93

ASCII_CARET == 94

ASCII_UNDERSCORE == 95

FUNCTION_KEY_OFFSET_3 == 3

FUNCTION_KEY_OFFSET_4 == 4

FUNCTION_KEY_OFFSET_5 == 5

FUNCTION_KEY_OFFSET_6 == 6

FUNCTION_KEY_OFFSET_7 == 7

FUNCTION_KEY_OFFSET_8 == 8

FUNCTION_KEY_OFFSET_9 == 9

FUNCTION_KEY_OFFSET_10 == 10

null == <<>>

isNonNullish(sequence) == sequence # null

\* the character codes of ESC, '[', 'O' and '~'
ESC == 27

LBRACKET == 91

LETTER_O == 79

TILDE == 126

NewInputBridge == [shift |-> FALSE, ctrl |-> FALSE, alt |-> FALSE]

isModifierKey(keycode) ==
    \/ keycode = SDLK_LSHIFT
    \/ keycode = SDLK_RSHIFT
    \/ keycode = SDLK_LCTRL
    \/ keycode = SDLK_RCTRL
    \/ keycode = SDLK_LALT
    \/ keycode = SDLK_RALT

updateModifierState(modifiers, keycode, pressed) ==
    IF keycode = SDLK_LSHIFT \/ keycode = SDLK_RSHIFT
    THEN [modifiers EXCEPT !.shift = pressed]
    ELSE IF keycode = SDLK_LCTRL \/ keycode = SDLK_RCTRL
    THEN [modifiers EXCEPT !.ctrl = pressed]
    ELSE IF keycode = SDLK_LALT \/ keycode = SDLK_RALT
    THEN [modifiers EXCEPT !.alt = pressed]
    ELSE modifiers

getSpecialKeySequence(modifiers, keycode) ==
    CASE keycode = SDLK_UP -> <<ESC, LBRACKET, 65>>
      [] keycode = SDLK_DOWN -> <<ESC, LBRACKET, 66>>
      [] keycode = SDLK_RIGHT -> <<ESC, LBRACKET, 67>>
      [] keycode = SDLK_LEFT -> <<ESC, LBRACKET, 68>>
      [] keycode = SDLK_HOME -> <<ESC, LBRACKET, 72>>
      [] keycode = SDLK_END -> <<ESC, LBRACKET, 70>>
      [] keycode = SDLK_PAGEUP -> <<ESC, LBRACKET, 53, TILDE>>
      [] keycode = SDLK_PAGEDOWN -> <<ESC, LBRACKET, 54, TILDE>>
      [] keycode = SDLK_RETURN -> <<13>>
      [] keycode = SDLK_ESCAPE -> <<ESC>>
      [] keycode = SDLK_BACKSPACE -> <<127>>
      [] keycode = SDLK_TAB -> IF modifiers.shift THEN <<ESC, LBRACKET, 90>> ELSE <<9>>
      [] keycode = SDLK_DELETE -> <<ESC, LBRACKET, 51, TILDE>>
      [] keycode = SDLK_SPACE -> <<32>>
      [] keycode = SDLK_F1 -> <<ESC, LETTER_O, 80>>
      [] keycode = SDLK_F1 + 1 -> <<ESC, LETTER_O, 81>>
      [] keycode = SDLK_F1 + 2 -> <<ESC, LETTER_O, 82>>
      [] keycode = SDLK_F1 + FUNCTION_KEY_OFFSET_3 -> <<ESC, LETTER_O, 83>>
      [] keycode = SDLK_F1 + FUNCTION_KEY_OFFSET_4 -> <<ESC, LBRACKET, 49, 53, TILDE>>
      [] keycode = SDLK_F1 + FUNCTION_KEY_OFFSET_5 -> <<ESC, LBRACKET, 49, 55, TILDE>>
      [] keycode = SDLK_F1 + FUNCTION_KEY_OFFSET_6 -> <<ESC, LBRACKET, 49, 56, TILDE>>
      [] keycode = SDLK_F1 + FUNCTION_KEY_OFFSET_7 -> <<ESC, LBRACKET, 49, 57, TILDE>>
      [] keycode = SDLK_F1 + FUNCTION_KEY_OFFSET_8 -> <<ESC, LBRACKET, 50, 48, TILDE>>
      [] keycode = SDLK_F1 + FUNCTION_KEY_OFFSET_9 -> <<ESC, LBRACKET, 50, 49, TILDE>>
      [] keycode = SDLK_F1 + FUNCTION_KEY_OFFSET_10 -> <<ESC, LBRACKET, 50, 51, TILDE>>
      [] keycode = SDLK_F12 -> <<ESC, LBRACKET, 50, 52, TILDE>>
      [] OTHER -> null

\* getCtrlSequence with the offset of the upper-case letters
getCtrlSequence_UpperOffset(keycode) ==
    IF keycode >= ASCII_A_LOWER /\ keycode <= ASCII_Z_LOWER
    THEN <<keycode - 64>>
    ELSE CASE keycode = SDLK_SPACE -> <<0>>
           [] keycode = ASCII_BRACKET_OPEN -> <<27>>
           [] keycode = ASCII_BACKSLASH -> <<28>>
           [] keycode = ASCII_BRACKET_CLOSE -> <<29>>
           [] keycode = ASCII_CARET -> <<30>>
           [] keycode = ASCII_UNDERSCORE -> <<31>>
           [] OTHER -> null

getCtrlSequence(keycode) ==
    IF keycode >= ASCII_A_LOWER /\ keycode <= ASCII_Z_LOWER
    THEN <<keycode - CTRL_KEY_OFFSET>>
    ELSE CASE keycode = SDLK_SPACE -> <<0>>
           [] keycode = ASCII_BRACKET_OPEN -> <<27>>
           [] keycode = ASCII_BACKSLASH -> <<28>>
           [] keycode = ASCII_BRACKET_CLOSE -> <<29>>
           [] keycode = ASCII_CARET -> <<30>>
           [] keycode = ASCII_UNDERSCORE -> <<31>>
           [] OTHER -> null

\* String.prototype.toUpperCase on one character in a..z
toUpperCase(code) == code - 32

\* processKeyEvent without the test of pressed
processKeyEvent_ReleaseToo(modifiers, event) ==
    LET keycode == event.keycode
        pressed == event.pressed
        specialSequence == getSpecialKeySequence(modifiers, keycode)
        ctrlSequence == getCtrlSequence(keycode)
    IN  IF isModifierKey(keycode)
        THEN [modifiers |-> updateModifierState(modifiers, keycode, pressed),
              sequence |-> null]
        ELSE [modifiers |-> modifiers,
              sequence |->
                IF isNonNullish(specialSequence) THEN specialSequence
                ELSE IF modifiers.ctrl /\ isNonNullish(ctrlSequence) THEN ctrlSequence
                ELSE IF keycode >= ASCII_PRINTABLE_START /\ keycode <= ASCII_PRINTABLE_END
                THEN IF /\ modifiers.shift
                        /\ keycode >= ASCII_A_LOWER
                        /\ keycode <= ASCII_Z_LOWER
                     THEN <<toUpperCase(keycode)>>
                     ELSE <<keycode>>
                ELSE null]

\* processKeyEvent(event): the modifier flags afterwards and the sequence
processKeyEvent(modifiers, event) ==
    LET keycode == event.keycode
        pressed == event.pressed
        specialSequence == getSpecialKeySequence(modifiers, keycode)
        ctrlSequence == getCtrlSequence(keycode)
    IN  IF isModifierKey(keycode)
        THEN [modifiers |-> updateModifierState(modifiers, keycode, pressed),
              sequence |-> null]
        ELSE [modifiers |-> modifiers,
              sequence |->
                IF ~pressed THEN null
                ELSE IF isNonNullish(specialSequence) THEN specialSequence
                ELSE IF modifiers.ctrl /\ isNonNullish(ctrlSequence) THEN ctrlSequence
                ELSE IF keycode >= ASCII_PRINTABLE_START /\ keycode <= ASCII_PRINTABLE_END
                THEN IF /\ modifiers.shift
                        /\ keycode >= ASCII_A_LOWER
                        /\ keycode <= ASCII_Z_LOWER
                     THEN <<toUpperCase(keycode)>>
                     ELSE <<keycode>>
                ELSE null]

InputBridge_reset(modifiers) == [shift |-> FALSE, ctrl |-> FALSE, alt |-> FALSE]

\* ------------------------------------------------------------------------
\* SdlInputStream (a Readable fed by pushKey)
\*
\* ended counts the push(null) calls, up to two.  obs.delivered records what
\* the operation under way handed to the Readable machinery with
\* this.push(), in order; EOF stands for push(null).
\* ------------------------------------------------------------------------

EOF == <<-1>>

NewInputStream == [buffer |-> <<>>, waiting |-> FALSE, ended |-> 0]

\* _read() that takes the buffered sequences from the end
SdlInputStream_read_LastFirst(w) ==
    IF Len(w.is.buffer) > 0
    THEN [w EXCEPT !.obs.delivered =
                       @ \o [k \in 1..Len(w.is.buffer) |->
                                w.is.buffer[Len(w.is.buffer) + 1 - k]],
                   !.is.buffer = <<>>]
    ELSE [w EXCEPT !.is.waiting = TRUE]

\* _read()
SdlInputStream_read(w) ==
    IF Len(w.is.buffer) > 0
    THEN [w EXCEPT !.obs.delivered = @ \o w.is.buffer, !.is.buffer = <<>>]
    ELSE [w EXCEPT !.is.waiting = TRUE]

\* clear()
SdlInputStream_clear(w) == [w EXCEPT !.is.buffer = <<>>]

\* obs.pushed records the sequences pushed, and obs.lateKeys those pushed
\* after close() had signalled the end of the data
pushKey(w, sequence) ==
    LET wake(v) == IF v.is.waiting
                   THEN SdlInputStream_read([v EXCEPT !.is.waiting = FALSE])
                   ELSE v
    IN  wake([w EXCEPT !.is.buffer = Append(@, sequence),
                       !.obs.pushed = Append(@, sequence),
                       !.obs.lateKeys = IF w.is.ended > 0
                                        THEN Append(@, sequence) ELSE @])

SdlInputStream_close(w) ==
    [w EXCEPT !.obs.delivered = Append(@, EOF), !.is.ended = Min(@ + 1, 2)]

\* ------------------------------------------------------------------------
\* SdlUiRenderer (the rendering coordinator)
\* ------------------------------------------------------------------------

SDL_QUIT == 256

SDL_WINDOWEVENT == 512

SDL_KEYDOWN == 768

SDL_KEYUP == 769

SDL_WINDOWEVENT_SIZE_CHANGED == 6

SDL_WINDOWEVENT_FOCUS_LOST == 13

SDL_WINDOWEVENT_CLOSE == 14

DEFAULT_REFRESH_RATE == 60

DEFAULT_WINDOW_WIDTH == 800

DEFAULT_WINDOW_HEIGHT == 600

DEFAULT_COLUMNS == 80

DEFAULT_ROWS == 24

MIN_COLUMNS == 40

MIN_ROWS == 10

MIN_BRIGHTNESS == 100

\* 1.3 and 0.5, in tenths
BOLD_BRIGHTNESS_MULTIPLIER == 13

DIM_BRIGHTNESS_MULTIPLIER == 5

\* 0.9, 0.5 and 0.08, in hundredths
UNDERLINE_POSITION == 90

STRIKETHROUGH_POSITION == 50

TEXT_DECORATION_THICKNESS == 8

getWindowSize(w) == [width |-> w.sdl.windowWidth, height |-> w.sdl.windowHeight]

\* the physical size of a window is its logical size times the display's scale
getDrawableSize(w) ==
    [width |-> (w.sdl.windowWidth * w.sdl.displayScale) \div 100,
     height |-> (w.sdl.windowHeight * w.sdl.displayScale) \div 100]

getScaleFactor(w) ==
    LET logical == getWindowSize(w)
        physical == getDrawableSize(w)
    IN  IF logical.width = 0 THEN 100
        ELSE (physical.width * 100) \div logical.width

getScaleFactorFromRenderer(w) ==
    LET logical == getWindowSize(w)
        physical == getDrawableSize(w)
    IN  IF logical.width = 0 \/ physical.width = 0 THEN 100
        ELSE (physical.width * 100) \div logical.width

getDisplayRefreshRate(w) ==
    IF w.ui.window = NULL THEN DEFAULT_REFRESH_RATE
    ELSE IF w.sdl.refreshRate <= 0 THEN DEFAULT_REFRESH_RATE
    ELSE w.sdl.refreshRate

\* a native call is given a handle: obs.badHandle records that a call of the
\* operation was given null or a handle that was destroyed
passes(w, handle) ==
    IF handle = NULL THEN [w EXCEPT !.obs.badHandle = TRUE]
    ELSE IF w.sdl.resources[handle].destroys > 0
    THEN [w EXCEPT !.obs.badHandle = TRUE]
    ELSE w

\* the calls of SdlUiRenderer are given this.renderer
usesRenderer(w) == passes(w, w.ui.renderer)

\* SDL_CreateTexture gives a texture or fails; the wrapper throws on
\* failure.  The content of a new texture is undefined.
createTexture(w, width, height, ok) ==
    IF ok
    THEN [newHandle(usesRenderer(w), "target", "library", width, height)
            EXCEPT !.sdl.surface = [fill |-> undefinedColor, ops |-> <<>>]]
    ELSE [usesRenderer(w) EXCEPT !.thrown = "SdlError"]

\* a null texture makes the screen the target
setRenderTarget(w, texture) ==
    LET given(v) == IF texture = NULL THEN v ELSE passes(v, texture)
    IN  [given(usesRenderer(w)) EXCEPT !.sdl.target = texture]

setDrawColor(w, color) == [usesRenderer(w) EXCEPT !.sdl.drawColor = color]

renderClear(w) ==
    LET cleared(v) ==
            IF v.sdl.target = NULL
            THEN [v EXCEPT !.sdl.backbuffer = [fill |-> v.sdl.drawColor, ops |-> <<>>]]
            ELSE [v EXCEPT !.sdl.surface = [fill |-> v.sdl.drawColor, ops |-> <<>>]]
    IN  cleared(usesRenderer(w))

renderFillRect(w, x, y, width, height) ==
    draw(usesRenderer(w), [op |-> "rect", x |-> x, y |-> y, width |-> width,
                           height |-> height, color |-> w.sdl.drawColor])

\* renderCopy(renderer, renderTarget, null, null) with the screen as target
renderCopy(w) ==
    [passes(usesRenderer(w), w.ui.renderTarget)
        EXCEPT !.sdl.backbuffer = w.sdl.surface]

renderPresent(w) == [usesRenderer(w) EXCEPT !.sdl.screen = w.sdl.backbuffer]

adjustBrightness(color, num, den, clamp) ==
    LET f(c) == IF clamp THEN Min(COLOR_CHANNEL_MAX, (c * num) \div den)
                ELSE (c * num) \div den
    IN  [r |-> f(color.r), g |-> f(color.g), b |-> f(color.b)]

\* updateTerminalDimensions without the minimum
updateTerminalDimensions_NoMinimum(w) ==
    IF w.ui.window = NULL \/ w.ui.charWidth = 0 \/ w.ui.charHeight = 0
    THEN w
    ELSE LET drawable == getDrawableSize(w)
         IN  [w EXCEPT !.ui.columns = drawable.width \div w.ui.charWidth,
                       !.ui.rows = drawable.height \div w.ui.charHeight]

updateTerminalDimensions(w) ==
    IF w.ui.window = NULL \/ w.ui.charWidth = 0 \/ w.ui.charHeight = 0
    THEN w
    ELSE LET drawable == getDrawableSize(w)
         IN  [w EXCEPT !.ui.columns = Max(drawable.width \div w.ui.charWidth, MIN_COLUMNS),
                       !.ui.rows = Max(drawable.height \div w.ui.charHeight, MIN_ROWS)]

\* ok: whether SDL_CreateTexture succeeds
createRenderTarget(w, ok) ==
    LET old(v) == IF v.ui.renderTarget # NULL
                  THEN [destroyTexture(v, v.ui.renderTarget)
                           EXCEPT !.ui.renderTarget = NULL]
                  ELSE v
        drawable == getDrawableSize(w)
        kept(v) == IF v.thrown # "none" THEN v
                   ELSE [v EXCEPT !.ui.renderTarget = v.ret]
    IN  IF w.ui.renderer = NULL
        THEN w
        ELSE kept(createTexture(old(w), drawable.width, drawable.height, ok))

\* reset() that homes the cursor and keeps the style
AnsiParser_reset_CursorOnly(w) ==
    [w EXCEPT !.ap.cursorRow = 1, !.ap.cursorCol = 1]

AnsiParser_reset(w) == [w EXCEPT !.ap = NewAnsiParser]

\* processAnsi that puts the new commands in front of the queue
processAnsi_Unshift(w, output) ==
    LET queued(r) == [w EXCEPT !.ap = r.p,
                               !.ui.pendingCommands = r.commands \o @,
                               !.obs.parsed = r.commands,
                               !.obs.emitted = @ \o r.commands,
                               !.obs.chunks = @ + 1]
    IN  queued(parse(w.ap, output))

\* obs.parsed, obs.emitted and obs.chunks record what the parser returned:
\* by this call, and by all the calls since the queue was last emptied
processAnsi(w, output) ==
    LET queued(r) == [w EXCEPT !.ap = r.p,
                               !.ui.pendingCommands = @ \o r.commands,
                               !.obs.parsed = r.commands,
                               !.obs.emitted = @ \o r.commands,
                               !.obs.chunks = @ + 1]
    IN  queued(parse(w.ap, output))

clearLine(w, row, fromCol) ==
    IF w.ui.renderer = NULL
    THEN w
    ELSE LET x == (fromCol - 1) * w.ui.charWidth
             y == (row - 1) * w.ui.charHeight
             drawable == getDrawableSize(w)
             clearWidth == drawable.width - x
         IN  renderFillRect(setDrawColor(w, w.ui.bgColor),
                            x, y, clearWidth, w.ui.charHeight)

SdlUiRenderer_renderText(w, cmd, bad) ==
    LET ui == w.ui
        text == cmd.text
        x == (cmd.col - 1) * ui.charWidth
        y == (cmd.row - 1) * ui.charHeight
        fg0 == IF ui.reverse THEN ui.bgColor ELSE ui.fgColor
        bg == IF ui.reverse THEN ui.fgColor ELSE ui.bgColor
        bolded(c) == IF ui.bold
                     THEN adjustBrightness(c, BOLD_BRIGHTNESS_MULTIPLIER, 10, TRUE)
                     ELSE c
        dimmed(c) == IF ui.dim
                     THEN adjustBrightness(c, DIM_BRIGHTNESS_MULTIPLIER, 10, FALSE)
                     ELSE c
        raised(c, brightness) ==
            IF brightness < MIN_BRIGHTNESS
            THEN IF brightness = 0
                 THEN [r |-> MIN_BRIGHTNESS, g |-> MIN_BRIGHTNESS,
                       b |-> MIN_BRIGHTNESS]
                 ELSE adjustBrightness(c, MIN_BRIGHTNESS, brightness, TRUE)
            ELSE c
        visible(c) == raised(c, Max(c.r, Max(c.g, c.b)))
        fg == visible(dimmed(bolded(fg0)))
        textWidth == Len(text) * ui.charWidth
        lineThickness == Max(1, Round(ui.charHeight * TEXT_DECORATION_THICKNESS, 100))
        background(v) == renderFillRect(setDrawColor(v, bg), x, y, textWidth,
                                        ui.charHeight)
        glyphs(v) == TextRenderer_renderText(v, text, x, y, fg, ui.italic, bad)
        decorationColor(v) == IF ui.underline \/ ui.strikethrough
                              THEN setDrawColor(v, fg)
                              ELSE v
        underlined(v) ==
            IF ui.underline
            THEN renderFillRect(v, x,
                     y + Round(ui.charHeight * UNDERLINE_POSITION, 100),
                     textWidth, lineThickness)
            ELSE v
        struck(v) ==
            IF ui.strikethrough
            THEN renderFillRect(v, x,
                     y + Round(ui.charHeight * STRIKETHROUGH_POSITION, 100),
                     textWidth, lineThickness)
            ELSE v
    IN  IF Len(cmd.text) = 0 \/ w.ui.renderer = NULL \/ ~w.ui.textRenderer
        THEN w
        ELSE struck(underlined(decorationColor(glyphs(background(w)))))

\* obs.executed records the commands in the order they are executed
executeCommand(w0, cmd, bad) ==
    LET w == [w0 EXCEPT !.obs.executed = Append(@, cmd)]
    IN  CASE cmd.type = "text" -> SdlUiRenderer_renderText(w, cmd, bad)
          [] cmd.type = "clear_screen" ->
                AnsiParser_reset(renderClear(setDrawColor(w, w.ui.defaultBgColor)))
          [] cmd.type = "clear_line" -> clearLine(w, cmd.row, cmd.col)
          [] cmd.type = "cursor_move" -> w
          [] cmd.type = "set_fg" -> [w EXCEPT !.ui.fgColor = cmd.color]
          [] cmd.type = "set_bg" -> [w EXCEPT !.ui.bgColor = cmd.color]
          [] cmd.type = "reset_style" ->
                [w EXCEPT !.ui.fgColor = DEFAULT_FG,
                          !.ui.bgColor = w.ui.defaultBgColor,
                          !.ui.bold = FALSE, !.ui.dim = FALSE, !.ui.italic = FALSE,
                          !.ui.underline = FALSE, !.ui.strikethrough = FALSE,
                          !.ui.reverse = FALSE]
          [] cmd.type = "set_bold" -> [w EXCEPT !.ui.bold = cmd.enabled]
          [] cmd.type = "set_dim" -> [w EXCEPT !.ui.dim = cmd.enabled]
          [] cmd.type = "set_italic" -> [w EXCEPT !.ui.italic = cmd.enabled]
          [] cmd.type = "set_underline" -> [w EXCEPT !.ui.underline = cmd.enabled]
          [] cmd.type = "set_strikethrough" ->
                [w EXCEPT !.ui.strikethrough = cmd.enabled]
          [] cmd.type = "set_reverse" -> [w EXCEPT !.ui.reverse = cmd.enabled]
          [] OTHER -> w

\* for (const cmd of this.pendingCommands) this.executeCommand(cmd)
RECURSIVE executeAll(_, _, _)
executeAll(w, cmds, bad) ==
    IF cmds = <<>> THEN w
    ELSE executeAll(executeCommand(w, Head(cmds), bad), Tail(cmds), bad)

\* obs.queued and obs.chunksDone record what the parser had returned, in
\* how many calls, when the queue was emptied
present_Unguarded(w, bad) ==
    LET executed(v) == executeAll(v, v.ui.pendingCommands, bad)
        emptied(v) == [v EXCEPT !.ui.pendingCommands = <<>>,
                                !.obs.queued = w.obs.emitted,
                                !.obs.chunksDone = w.obs.chunks,
                                !.obs.emitted = <<>>,
                                !.obs.chunks = 0]
    IN  IF ~w.ui.textRenderer
        THEN renderPresent(renderCopy(setRenderTarget(w, NULL)))
        ELSE renderPresent(renderCopy(setRenderTarget(
                 emptied(executed(setRenderTarget(w, w.ui.renderTarget))), NULL)))

present(w, bad) ==
    LET executed(v) == executeAll(v, v.ui.pendingCommands, bad)
        emptied(v) == [v EXCEPT !.ui.pendingCommands = <<>>,
                                !.obs.queued = w.obs.emitted,
                                !.obs.chunksDone = w.obs.chunks,
                                !.obs.emitted = <<>>,
                                !.obs.chunks = 0]
    IN  IF w.ui.renderer = NULL \/ ~w.ui.textRenderer \/ w.ui.renderTarget = NULL
        THEN w
        ELSE renderPresent(renderCopy(setRenderTarget(
                 emptied(executed(setRenderTarget(w, w.ui.renderTarget))), NULL)))

refreshDisplay(w) ==
    IF w.ui.renderer = NULL \/ w.ui.renderTarget = NULL
    THEN w
    ELSE renderPresent(renderCopy(setRenderTarget(w, NULL)))

SdlUiRenderer_clear(w) ==
    LET cleared(v) == renderClear(setDrawColor(v, v.ui.defaultBgColor))
    IN  IF w.ui.renderer = NULL \/ w.ui.renderTarget = NULL
        THEN w
        ELSE AnsiParser_reset(setRenderTarget(
                 cleared(setRenderTarget(w, w.ui.renderTarget)), NULL))

\* the size a texture was created with
textureSize(w, texture) ==
    IF texture = NULL THEN [width |-> 0, height |-> 0]
    ELSE [width |-> w.sdl.resources[texture].width,
          height |-> w.sdl.resources[texture].height]

handleResize_IgnoresUserScale(w, fontOk, textureOk) ==
    LET size == getWindowSize(w)
        sized(v) == [v EXCEPT !.ui.windowWidth = size.width,
                              !.ui.windowHeight = size.height]
        metrics(v) == IF v.thrown # "none" THEN v
                      ELSE IF v.ui.textRenderer
                      THEN [v EXCEPT !.ui.charWidth = v.tr.charWidth,
                                     !.ui.charHeight = v.tr.charHeight]
                      ELSE v
        fonts(v, newScale) == IF v.ui.textRenderer
                              THEN updateScaleFactor(v, newScale, fontOk)
                              ELSE v
        rescaled(v, newScale, diff) ==
            IF diff > SCALE_FACTOR_EPSILON
            THEN metrics(fonts([v EXCEPT !.ui.scaleFactor = newScale], newScale))
            ELSE v
        compared(v, newScale) ==
            rescaled(v, newScale,
                     IF newScale >= v.ui.scaleFactor
                     THEN newScale - v.ui.scaleFactor
                     ELSE v.ui.scaleFactor - newScale)
        scaled(v) == compared(v, getScaleFactor(v))
        target(v) == IF v.thrown # "none" THEN v
                     ELSE createRenderTarget(v, textureOk)
        cleared(v) == IF v.thrown # "none" THEN v
                      ELSE SdlUiRenderer_clear(updateTerminalDimensions(v))
        noted(v) ==
            IF v.thrown # "none" THEN v
            ELSE [v EXCEPT !.obs.resizes =
                     Append(@, [drawable |-> getDrawableSize(v),
                                surface |-> textureSize(v, v.ui.renderTarget),
                                charWidth |-> v.ui.charWidth,
                                charHeight |-> v.ui.charHeight,
                                columns |-> v.ui.columns,
                                rows |-> v.ui.rows])]
    IN  IF w.ui.window = NULL
        THEN w
        ELSE noted(cleared(target(scaled(sized(w)))))

\* fontOk, textureOk: whether TTF_OpenFont and SDL_CreateTexture succeed;
\* obs.resizes records, for every resize handled, the drawable size, the size
\* of the render target, the cell size and the grid
handleResize(w, fontOk, textureOk) ==
    LET size == getWindowSize(w)
        sized(v) == [v EXCEPT !.ui.windowWidth = size.width,
                              !.ui.windowHeight = size.height]
        metrics(v) == IF v.thrown # "none" THEN v
                      ELSE IF v.ui.textRenderer
                      THEN [v EXCEPT !.ui.charWidth = v.tr.charWidth,
                                     !.ui.charHeight = v.tr.charHeight]
                      ELSE v
        fonts(v, newScale) == IF v.ui.textRenderer
                              THEN updateScaleFactor(v, newScale, fontOk)
                              ELSE v
        rescaled(v, newScale, diff) ==
            IF v.ui.userScaleFactor = NULL /\ diff > SCALE_FACTOR_EPSILON
            THEN metrics(fonts([v EXCEPT !.ui.scaleFactor = newScale], newScale))
            ELSE v
        compared(v, newScale) ==
            rescaled(v, newScale,
                     IF newScale >= v.ui.scaleFactor
                     THEN newScale - v.ui.scaleFactor
                     ELSE v.ui.scaleFactor - newScale)
        scaled(v) == compared(v, getScaleFactor(v))
        target(v) == IF v.thrown # "none" THEN v
                     ELSE createRenderTarget(v, textureOk)
        cleared(v) == IF v.thrown # "none" THEN v
                      ELSE SdlUiRenderer_clear(updateTerminalDimensions(v))
        noted(v) ==
            IF v.thrown # "none" THEN v
            ELSE [v EXCEPT !.obs.resizes =
                     Append(@, [drawable |-> getDrawableSize(v),
                                surface |-> textureSize(v, v.ui.renderTarget),
                                charWidth |-> v.ui.charWidth,
                                charHeight |-> v.ui.charHeight,
                                columns |-> v.ui.columns,
                                rows |-> v.ui.rows])]
    IN  IF w.ui.window = NULL
        THEN w
        ELSE noted(cleared(target(scaled(sized(w)))))

\* setScaleFactor(scaleFactor); NULL asks for the display's scale
setScaleFactor(w, scaleFactor, fontOk, textureOk) ==
    LET newScale(v) == IF scaleFactor # NULL THEN scaleFactor
                       ELSE IF v.ui.window # NULL /\ v.ui.renderer # NULL
                       THEN getScaleFactorFromRenderer(v)
                       ELSE 100
        absDiff(a, b) == IF a >= b THEN a - b ELSE b - a
        metrics(v) == IF v.thrown # "none" THEN v
                      ELSE IF v.ui.textRenderer
                      THEN [v EXCEPT !.ui.charWidth = v.tr.charWidth,
                                     !.ui.charHeight = v.tr.charHeight]
                      ELSE v
        fonts(v, scale) == IF v.ui.textRenderer
                           THEN updateScaleFactor(v, scale, fontOk)
                           ELSE v
        target(v) == IF v.thrown # "none" THEN v
                     ELSE createRenderTarget(v, textureOk)
        cleared(v) == IF v.thrown # "none" THEN v
                      ELSE SdlUiRenderer_clear(updateTerminalDimensions(v))
        rescaled(v, scale) ==
            IF absDiff(scale, v.ui.scaleFactor) < SCALE_FACTOR_EPSILON
            THEN v
            ELSE cleared(target(metrics(fonts([v EXCEPT !.ui.scaleFactor = scale],
                                              scale))))
        chosen(v) == rescaled(v, newScale(v))
    IN  chosen([w EXCEPT !.ui.userScaleFactor = scaleFactor])

\* SdlUiRenderer.reset(); the queue is emptied, so obs.emitted and obs.chunks
\* start again
SdlUiRenderer_reset(w) ==
    LET size == getWindowSize(w)
        sized(v) == IF v.ui.window # NULL
                    THEN updateTerminalDimensions(
                             [v EXCEPT !.ui.windowWidth = size.width,
                                       !.ui.windowHeight = size.height])
                    ELSE v
    IN  sized(AnsiParser_reset(
            [w EXCEPT !.ui.shouldQuit = FALSE,
                      !.ui.pendingCommands = <<>>,
                      !.obs.emitted = <<>>,
                      !.obs.chunks = 0,
                      !.ui.fgColor = DEFAULT_FG,
                      !.ui.bgColor = w.ui.defaultBgColor,
                      !.ui.bold = FALSE, !.ui.dim = FALSE, !.ui.italic = FALSE,
                      !.ui.underline = FALSE, !.ui.strikethrough = FALSE,
                      !.ui.reverse = FALSE]))

\* One turn of the while loop of processEvents on the polled event;
\* w.polled is the result so far.
processEvent(w, event, fontOk, textureOk) ==
    LET resized(v) == IF v.thrown # "none" THEN v
                      ELSE [v EXCEPT !.polled.resized = TRUE]
    IN  IF event.type = SDL_QUIT
        THEN [w EXCEPT !.ui.shouldQuit = TRUE]
        ELSE IF event.type = SDL_WINDOWEVENT
        THEN IF event.windowEvent = SDL_WINDOWEVENT_CLOSE
             THEN [w EXCEPT !.ui.shouldQuit = TRUE]
             ELSE IF event.windowEvent = SDL_WINDOWEVENT_SIZE_CHANGED
             THEN resized(handleResize(w, fontOk, textureOk))
             ELSE IF event.windowEvent = SDL_WINDOWEVENT_FOCUS_LOST
             THEN [w EXCEPT !.polled.focusLost = TRUE]
             ELSE w
        ELSE IF event.type = SDL_KEYDOWN \/ event.type = SDL_KEYUP
        THEN [w EXCEPT !.polled.keyEvents =
                          Append(@, [keycode |-> event.keycode,
                                     pressed |-> event.pressed,
                                     repeat |-> event.repeat])]
        ELSE w

\* pollEvent() until the queue is empty; obs.drained records the events
\* polled, in order
RECURSIVE pollLoop(_, _, _)
pollLoop(w, fontOk, textureOk) ==
    LET polled(v, event) ==
            processEvent([v EXCEPT !.sdl.events = Tail(@),
                                   !.obs.drained = Append(@, event)],
                         event, fontOk, textureOk)
    IN  IF w.sdl.events = <<>> \/ w.thrown # "none"
        THEN w
        ELSE pollLoop(polled(w, Head(w.sdl.events)), fontOk, textureOk)

processEvents(w, fontOk, textureOk) ==
    pollLoop([w EXCEPT !.polled = [keyEvents |-> <<>>, resized |-> FALSE,
                                   focusLost |-> FALSE]],
             fontOk, textureOk)

resetInputState(w) == [w EXCEPT !.ib = InputBridge_reset(w.ib)]

\* destroy that destroys the renderer and the window whoever owns them
SdlUiRenderer_destroy_IgnoreOwnership(w) ==
    LET text(v) == IF v.ui.textRenderer
                   THEN [TextRenderer_destroy(v) EXCEPT !.ui.textRenderer = FALSE]
                   ELSE v
        target(v) == IF v.ui.renderTarget # NULL
                     THEN [destroyTexture(v, v.ui.renderTarget)
                              EXCEPT !.ui.renderTarget = NULL]
                     ELSE v
        renderer(v) == IF v.ui.renderer # NULL
                       THEN [destroyRenderer(v, v.ui.renderer)
                                EXCEPT !.ui.renderer = NULL]
                       ELSE [v EXCEPT !.ui.renderer = NULL]
        window(v) == IF v.ui.window # NULL
                     THEN [destroyWindow(v, v.ui.window) EXCEPT !.ui.window = NULL]
                     ELSE [v EXCEPT !.ui.window = NULL]
    IN  window(renderer(target(text(w))))

SdlUiRenderer_destroy(w) ==
    LET text(v) == IF v.ui.textRenderer
                   THEN [TextRenderer_destroy(v) EXCEPT !.ui.textRenderer = FALSE]
                   ELSE v
        target(v) == IF v.ui.renderTarget # NULL
                     THEN [destroyTexture(v, v.ui.renderTarget)
                              EXCEPT !.ui.renderTarget = NULL]
                     ELSE v
        renderer(v) == IF v.ui.ownsRenderer /\ v.ui.renderer # NULL
                       THEN [destroyRenderer(v, v.ui.renderer)
                                EXCEPT !.ui.renderer = NULL]
                       ELSE [v EXCEPT !.ui.renderer = NULL]
        window(v) == IF v.ui.ownsWindow /\ v.ui.window # NULL
                     THEN [destroyWindow(v, v.ui.window) EXCEPT !.ui.window = NULL]
                     ELSE [v EXCEPT !.ui.window = NULL]
    IN  window(renderer(target(text(w))))

HEX_COLOR_LENGTH == 6

HEX_R_END == 2

HEX_G_END == 4

\* an option that was not given
undefined == [kind |-> "undefined"]

\* parseBackgroundColor(color); color is undefined, an array [r, g, b]
\* ([kind |-> "array", value]) or a string ([kind |-> "string", value])
parseBackgroundColor(color) ==
    LET hex == IF color.value # <<>> /\ Head(color.value) = "#"
               THEN Tail(color.value) ELSE color.value
        r == ParseInt16(SubSeq(hex, 1, HEX_R_END))
        g == ParseInt16(SubSeq(hex, HEX_R_END + 1, HEX_G_END))
        b == ParseInt16(SubSeq(hex, HEX_G_END + 1, Len(hex)))
    IN  IF color.kind = "undefined" THEN DEFAULT_BG
        ELSE IF color.kind = "array"
        THEN [r |-> color.value[1], g |-> color.value[2], b |-> color.value[3]]
        ELSE IF color.value = <<>> THEN DEFAULT_BG
        ELSE IF Len(hex) = HEX_COLOR_LENGTH /\ ~r.nan /\ ~g.nan /\ ~b.nan
        THEN [r |-> r.value, g |-> g.value, b |-> b.value]
        ELSE DEFAULT_BG

\* new SdlUiRenderer({ existing, backgroundColor, scaleFactor }) on a machine
\* where every native call of the constructor succeeds; existing: whether the
\* caller supplies its own window and renderer; scaleFactor: NULL when the
\* option is not given or null
newSdlUiRenderer(w, existing, backgroundColor, scaleFactor) ==
    LET ui0 == [window |-> NULL, renderer |-> NULL, textRenderer |-> FALSE,
                renderTarget |-> NULL, ownsWindow |-> TRUE, ownsRenderer |-> TRUE,
                windowWidth |-> DEFAULT_WINDOW_WIDTH,
                windowHeight |-> DEFAULT_WINDOW_HEIGHT,
                columns |-> DEFAULT_COLUMNS, rows |-> DEFAULT_ROWS,
                charWidth |-> 0, charHeight |-> 0,
                fgColor |-> DEFAULT_FG,
                bgColor |-> parseBackgroundColor(backgroundColor),
                defaultBgColor |-> parseBackgroundColor(backgroundColor),
                bold |-> FALSE, dim |-> FALSE, italic |-> FALSE,
                underline |-> FALSE, strikethrough |-> FALSE, reverse |-> FALSE,
                shouldQuit |-> FALSE, pendingCommands |-> <<>>,
                scaleFactor |-> 100, userScaleFactor |-> NULL]
        owner == IF existing THEN "caller" ELSE "library"
        window(v) == [v EXCEPT !.ui.window = v.ret, !.ui.ownsWindow = ~existing]
        renderer(v) == [v EXCEPT !.ui.renderer = v.ret, !.ui.ownsRenderer = ~existing]
        \* initWithExistingResources and initNewResources
        sized(v, size) == IF existing
                          THEN [v EXCEPT !.ui.windowWidth = size.width,
                                         !.ui.windowHeight = size.height]
                          ELSE v
        resources(v) ==
            sized(renderer(newHandle(window(newHandle(v, "window", owner, 0, 0)),
                                     "renderer", owner, 0, 0)),
                  getWindowSize(v))
        scaled(v) == [v EXCEPT !.ui.userScaleFactor = scaleFactor,
                               !.ui.scaleFactor =
                                   IF scaleFactor # NULL THEN scaleFactor
                                   ELSE getScaleFactorFromRenderer(v)]
        text(v) == newTextRenderer(v, v.ui.scaleFactor, TRUE)
        metrics(v) == [v EXCEPT !.ui.textRenderer = TRUE,
                                !.ui.charWidth = v.tr.charWidth,
                                !.ui.charHeight = v.tr.charHeight]
        target(v) == createRenderTarget(updateTerminalDimensions(v), TRUE)
        colored(v) == setDrawColor(v, v.ui.defaultBgColor)
        cleared(v) == setRenderTarget(
                          renderClear(setRenderTarget(v, v.ui.renderTarget)), NULL)
    IN  renderPresent(renderClear(cleared(colored(target(metrics(text(scaled(
            resources([w EXCEPT !.ui = ui0, !.ap = NewAnsiParser,
                                !.ib = NewInputBridge])))))))))

\* ------------------------------------------------------------------------
\* SdlOutputStream
\* ------------------------------------------------------------------------

\* _write(chunk, encoding, callback): obs.callback is the argument the
\* callback was called with
SdlOutputStream_write(w, chunk, bad) ==
    LET called(v) ==
            [v EXCEPT !.obs.callback = IF v.thrown = "none" THEN "null" ELSE v.thrown,
                      !.thrown = "none"]
    IN  called(present(processAnsi(w, chunk), bad))

notifyResize(w) == [w EXCEPT !.obs.emits = Append(@, "stream resize")]

\* ------------------------------------------------------------------------
\* SdlWindow (the event loop)
\*
\* node.timers holds, for every interval timer ever set, its interval and
\* how many times it was cleared; a timer handle is an index into it.
\* ------------------------------------------------------------------------

MS_PER_SECOND == 1000

DEFAULT_EVENT_LOOP_INTERVAL_MS == 16

\* the code of Ctrl+C
ETX == 3

setInterval(w, intervalMs) ==
    [w EXCEPT !.node.timers = Append(@, [intervalMs |-> intervalMs, clears |-> 0]),
              !.ret = Len(w.node.timers) + 1]

clearInterval(w, handle) == [w EXCEPT !.node.timers[handle].clears = @ + 1]

calculateIntervalMs(refreshRate) ==
    IF refreshRate > 0 THEN MS_PER_SECOND \div refreshRate
    ELSE DEFAULT_EVENT_LOOP_INTERVAL_MS

getEffectiveFrameRate(w) ==
    IF w.win.forcedFrameRate # NULL THEN w.win.forcedFrameRate
    ELSE getDisplayRefreshRate(w)

startEventLoop(w) ==
    LET rate == getEffectiveFrameRate(w)
        started(v) == [v EXCEPT !.win.currentRefreshRate = rate,
                                !.win.eventLoopHandle = v.ret]
    IN  started(setInterval(w, calculateIntervalMs(rate)))

\* close() without the closed guard
close_Unguarded(w) ==
    LET stopped(v) == IF v.win.eventLoopHandle # NULL
                      THEN [clearInterval(v, v.win.eventLoopHandle)
                               EXCEPT !.win.eventLoopHandle = NULL,
                                      !.obs.teardown = Append(@, "timer")]
                      ELSE v
        ended(v) == [SdlInputStream_close(v)
                        EXCEPT !.obs.teardown = Append(@, "stream")]
        destroyed(v) == [SdlUiRenderer_destroy(v)
                            EXCEPT !.obs.teardown = Append(@, "renderer")]
    IN  destroyed(ended(stopped([w EXCEPT !.win.closed = TRUE])))

\* close() that leaves the interval timer running
close_TimerKept(w) ==
    LET ended(v) == [SdlInputStream_close(v)
                        EXCEPT !.obs.teardown = Append(@, "stream")]
        destroyed(v) == [SdlUiRenderer_destroy(v)
                            EXCEPT !.obs.teardown = Append(@, "renderer")]
    IN  IF w.win.closed
        THEN w
        ELSE destroyed(ended([w EXCEPT !.win.closed = TRUE]))

\* close(); obs.teardown records the order of its three steps

close(w) ==
    LET stopped(v) == IF v.win.eventLoopHandle # NULL
                      THEN [clearInterval(v, v.win.eventLoopHandle)
                               EXCEPT !.win.eventLoopHandle = NULL,
                                      !.obs.teardown = Append(@, "timer")]
                      ELSE v
        ended(v) == [SdlInputStream_close(v)
                        EXCEPT !.obs.teardown = Append(@, "stream")]
        destroyed(v) == [SdlUiRenderer_destroy(v)
                            EXCEPT !.obs.teardown = Append(@, "renderer")]
    IN  IF w.win.closed
        THEN w
        ELSE destroyed(ended(stopped([w EXCEPT !.win.closed = TRUE])))

\* the objects' fields, the native side and the process
Program(w) == <<w.win, w.ui, w.tr, w.ap, w.ib, w.is, w.sdl, w.node>>

\* a call of close(); obs.closeCalls counts the calls up to two, and
\* obs.repeatChanged tells whether a call on a closed window changed anything
closeCall(w) ==
    LET counted(v) == [v EXCEPT !.obs.closeCalls = Min(@ + 1, 2),
                                !.obs.repeatChanged =
                                    @ \/ (w.win.closed /\ Program(v) # Program(w))]
    IN  counted(close(w))

\* emit(name): obs.emits records the event; the listener for the event
\* named closer, if there is one, calls close()
emit(w, name, closer) ==
    LET heard(v) == IF closer = name THEN closeCall(v) ELSE v
    IN  heard([w EXCEPT !.obs.emits = Append(@, name)])

\* due: whether REFRESH_RATE_CHECK_INTERVAL_MS have passed since the last check
checkRefreshRateChange_KeepsOldTimer(w, due, closer) ==
    LET newRefreshRate == getDisplayRefreshRate(w)
        started(v) == [v EXCEPT !.win.eventLoopHandle = v.ret]
    IN  IF w.win.forcedFrameRate # NULL \/ ~due
        THEN w
        ELSE IF newRefreshRate # w.win.currentRefreshRate
        THEN emit(started(setInterval(
                      [w EXCEPT !.win.currentRefreshRate = newRefreshRate],
                      calculateIntervalMs(newRefreshRate))),
                  "frameRateChange", closer)
        ELSE w

checkRefreshRateChange(w, due, closer) ==
    LET newRefreshRate == getDisplayRefreshRate(w)
        stopped(v) == IF v.win.eventLoopHandle # NULL
                      THEN clearInterval(v, v.win.eventLoopHandle)
                      ELSE v
        started(v) == [v EXCEPT !.win.eventLoopHandle = v.ret]
    IN  IF w.win.forcedFrameRate # NULL \/ ~due
        THEN w
        ELSE IF newRefreshRate # w.win.currentRefreshRate
        THEN emit(started(setInterval(
                      stopped([w EXCEPT !.win.currentRefreshRate = newRefreshRate]),
                      calculateIntervalMs(newRefreshRate))),
                  "frameRateChange", closer)
        ELSE w

\* the body of the key loop that pushes one-character sequences only
keyStep_SingleCharOnly(w, event, hasSigint, closer) ==
    LET translated(v, sequence) ==
            IF Len(sequence) > 0
            THEN IF sequence = <<ETX>>
                 THEN IF hasSigint
                      THEN emit(v, "sigint", closer)
                      ELSE [v EXCEPT !.node.signals = @ + 1]
                 ELSE IF Len(sequence) = 1
                 THEN emit(pushKey(v, sequence), "key", closer)
                 ELSE emit(v, "key", closer)
            ELSE v
        processed(r) == translated([w EXCEPT !.ib = r.modifiers], r.sequence)
    IN  processed(processKeyEvent(w.ib, event))

\* the body of the key loop for one event; hasSigint: whether the window
\* has a "sigint" listener
keyStep(w, event, hasSigint, closer) ==
    LET translated(v, sequence) ==
            IF Len(sequence) > 0
            THEN IF sequence = <<ETX>>
                 THEN IF hasSigint
                      THEN emit(v, "sigint", closer)
                      ELSE [v EXCEPT !.node.signals = @ + 1]
                 ELSE emit(pushKey(v, sequence), "key", closer)
            ELSE v
        processed(r) == translated([w EXCEPT !.ib = r.modifiers], r.sequence)
    IN  processed(processKeyEvent(w.ib, event))

RECURSIVE keyLoop(_, _, _, _)
keyLoop(w, keyEvents, hasSigint, closer) ==
    IF keyEvents = <<>> THEN w
    ELSE keyLoop(keyStep(w, Head(keyEvents), hasSigint, closer),
                 Tail(keyEvents), hasSigint, closer)

\* One tick of the interval timer.  t gives what the tick finds outside the
\* program: t.due, t.hasSigint, t.closer, t.fontOk, t.textureOk.  An exception
\* leaves the callback where it is thrown.  obs.bridgeAtLoop records the
\* modifier flags when the key loop starts.
runEventLoopIteration(w, t) ==
    LET resized(v, result) == IF result.resized
                              THEN emit(notifyResize(v), "resize", t.closer)
                              ELSE v
        blurred(v, result) == IF result.focusLost
                              THEN emit(resetInputState(v), "blur", t.closer)
                              ELSE v
        keys(v, result) == keyLoop([v EXCEPT !.obs.bridgeAtLoop = v.ib,
                                             !.obs.looped = TRUE],
                                   result.keyEvents, t.hasSigint, t.closer)
        quit(v) == IF v.ui.shouldQuit
                   THEN closeCall(emit(v, "close", t.closer))
                   ELSE v
        handled(v, result) ==
            IF v.thrown # "none" THEN v
            ELSE quit(refreshDisplay(keys(blurred(resized(v, result), result),
                                          result)))
        polled(v) == handled(v, v.polled)
    IN  IF w.win.closed
        THEN w
        ELSE polled(processEvents(checkRefreshRateChange(w, t.due, t.closer),
                                  t.fontOk, t.textureOk))

\* createSdlStreams({ existing, frameRate, backgroundColor, scaleFactor })
createSdlStreams(w, existing, frameRate, backgroundColor, scaleFactor) ==
    LET window(v) == [v EXCEPT !.is = NewInputStream,
                               !.win = [closed |-> FALSE, eventLoopHandle |-> NULL,
                                        currentRefreshRate |-> 0,
                                        forcedFrameRate |-> frameRate]]
    IN  startEventLoop(window(newSdlUiRenderer(w, existing, backgroundColor,
                                            scaleFactor)))

\* ------------------------------------------------------------------------
\* Worlds and state variables
\* ------------------------------------------------------------------------

TheWorld ==
    [win |-> sdlWindow, ui |-> uiRenderer, tr |-> textRenderer, ap |-> ansiParser,
     ib |-> inputBridge, is |-> inputStream, sdl |-> sdl, node |-> node,
     obs |-> observed, ret |-> NULL, polled |-> NULL, thrown |-> "none"]

\* the variables take the values of the world w
Becomes(w) ==
    /\ sdlWindow' = w.win
    /\ uiRenderer' = w.ui
    /\ textRenderer' = w.tr
    /\ ansiParser' = w.ap
    /\ inputBridge' = w.ib
    /\ inputStream' = w.is
    /\ sdl' = w.sdl
    /\ node' = w.node
    /\ observed' = [w.obs EXCEPT !.thrown = w.thrown]

Starts(w) ==
    /\ sdlWindow = w.win
    /\ uiRenderer = w.ui
    /\ textRenderer = w.tr
    /\ ansiParser = w.ap
    /\ inputBridge = w.ib
    /\ inputStream = w.is
    /\ sdl = w.sdl
    /\ node = w.node
    /\ observed = w.obs

HarnessOff ==
    /\ prevParser = NewAnsiParser
    /\ input = <<>>
    /\ commands = <<>>
    /\ parsePc = "idle"
    /\ SplitOff

harnessVars == <<prevParser, input, commands, parsePc,
                 splitAt, splitPc, placed, batchParser, batchPlaced>>

\* nothing has happened yet
NothingObserved ==
    [glyph |-> "none", thrown |-> "none", callback |-> "none",
     drained |-> <<>>, bridgeAtLoop |-> NewInputBridge, looped |-> FALSE,
     pushed |-> <<>>, delivered |-> <<>>, emits |-> <<>>, resizes |-> <<>>,
     teardown |-> <<>>, lateKeys |-> <<>>,
     key |-> [char |-> "", packedColor |-> -1, italic |-> FALSE], requested |-> {},
     parsed |-> <<>>, executed |-> <<>>, queued |-> <<>>, chunksDone |-> 0,
     emitted |-> <<>>, chunks |-> 0,
     closeCalls |-> 0, repeatChanged |-> FALSE, badHandle |-> FALSE]

\* the record of a new operation: what is recorded about one operation is
\* forgotten when the next one starts
Begin(w) ==
    [w EXCEPT !.obs = [NothingObserved EXCEPT !.emitted = w.obs.emitted,
                                              !.chunks = w.obs.chunks,
                                              !.closeCalls = w.obs.closeCalls,
                                              !.requested = w.obs.requested,
                                              !.repeatChanged = w.obs.repeatChanged]]

\* the native side before anything is created
NewSdl(emojiFont) ==
    [resources |-> <<>>, events |-> <<>>, target |-> NULL,
     drawColor |-> DEFAULT_BG,
     surface |-> [fill |-> undefinedColor, ops |-> <<>>],
     backbuffer |-> [fill |-> undefinedColor, ops |-> <<>>],
     screen |-> [fill |-> undefinedColor, ops |-> <<>>],
     emojiFont |-> emojiFont,
     windowWidth |-> DEFAULT_WINDOW_WIDTH, windowHeight |-> DEFAULT_WINDOW_HEIGHT,
     displayScale |-> 100, refreshRate |-> DEFAULT_REFRESH_RATE]

NewNode == [timers |-> <<>>, signals |-> 0]

\* ------------------------------------------------------------------------
\* The glyph cache on its own: one TextRenderer on an SDL renderer, any
\* sequence of glyph requests, cache clears, scale changes and destroy
\* ------------------------------------------------------------------------

\* the number of operations on the text renderer
MaxCacheOps == 5

CacheChars == {"a", "b"}

CacheColors == {DEFAULT_FG, ANSI_COLORS_NORMAL[2]}

CacheScales == {100, 200}

InitCache ==
    /\ \E emojiFont \in BOOLEAN :
         LET w0 == [win |-> NULL, ui |-> NULL, tr |-> NULL, ap |-> NewAnsiParser,
                    ib |-> NULL, is |-> NULL, sdl |-> NewSdl(emojiFont),
                    node |-> NULL, obs |-> NothingObserved,
                    ret |-> NULL, polled |-> NULL, thrown |-> "none"]
             w1 == newHandle(w0, "renderer", "caller", 0, 0)
         IN  Starts(newTextRenderer(w1, 100, TRUE))
    /\ opsUsed = 0
    /\ HarnessOff

\* renderChar(char, x, y, color, italic)
CacheRenderChar(char, color, italic, ok) ==
    /\ opsUsed < MaxCacheOps
    /\ Becomes(renderChar(Begin(TheWorld), char, 0, 0, color, italic, ok))
    /\ opsUsed' = opsUsed + 1
    /\ UNCHANGED harnessVars

\* clearCache()
CacheClear ==
    /\ opsUsed < MaxCacheOps
    /\ Becomes(clearCache(Begin(TheWorld)))
    /\ opsUsed' = opsUsed + 1
    /\ UNCHANGED harnessVars

\* updateScaleFactor(scaleFactor)
CacheUpdateScaleFactor(scaleFactor, ok) ==
    /\ opsUsed < MaxCacheOps
    /\ Becomes(updateScaleFactor(Begin(TheWorld), scaleFactor, ok))
    /\ opsUsed' = opsUsed + 1
    /\ UNCHANGED harnessVars

\* destroy()
CacheDestroy ==
    /\ opsUsed < MaxCacheOps
    /\ Becomes(TextRenderer_destroy(Begin(TheWorld)))
    /\ opsUsed' = opsUsed + 1
    /\ UNCHANGED harnessVars

NextCache ==
    \/ \E char \in CacheChars, color \in CacheColors, italic \in BOOLEAN,
          ok \in BOOLEAN : CacheRenderChar(char, color, italic, ok)
    \/ CacheClear
    \/ \E scaleFactor \in CacheScales, ok \in BOOLEAN :
          CacheUpdateScaleFactor(scaleFactor, ok)
    \/ CacheDestroy

SpecCache == InitCache /\ [][NextCache]_vars

\* ------------------------------------------------------------------------
\* Claims about the glyph cache
\* ------------------------------------------------------------------------

\* C8: after any sequence of glyph requests the number of entries in the
\* glyph cache is at most the configured maximum.
C8_CacheWithinMax ==
    Cardinality(DOMAIN textRenderer.glyphCache) <= MAX_GLYPH_CACHE_SIZE

\* a glyph was inserted while the cache was full, and the cache is full again
C8_Witness ==
    /\ observed.glyph = "evicted"
    /\ Cardinality(DOMAIN textRenderer.glyphCache) = MAX_GLYPH_CACHE_SIZE

\* ------------------------------------------------------------------------
\* The window system: createSdlStreams(), then the user and the display
\* post native events, the application writes output and calls the public
\* methods, and the interval timer ticks
\* ------------------------------------------------------------------------

\* the number of steps the environment takes: events posted, display
\* changes and chunks of output
MaxOps == 2

KeyEvent(keycode, pressed) ==
    [type |-> IF pressed THEN SDL_KEYDOWN ELSE SDL_KEYUP, windowEvent |-> 0,
     keycode |-> keycode, pressed |-> pressed, repeat |-> FALSE]

WindowEvent(windowEvent) ==
    [type |-> SDL_WINDOWEVENT, windowEvent |-> windowEvent,
     keycode |-> 0, pressed |-> FALSE, repeat |-> FALSE]

QuitEvent ==
    [type |-> SDL_QUIT, windowEvent |-> 0,
     keycode |-> 0, pressed |-> FALSE, repeat |-> FALSE]

\* the keys the user presses and releases: shift, ctrl, alt, c and up
Keys ==
    { KeyEvent(SDLK_LSHIFT, TRUE), KeyEvent(SDLK_RCTRL, TRUE),
      KeyEvent(SDLK_LALT, TRUE), KeyEvent(SDLK_LSHIFT, FALSE),
      KeyEvent(99, TRUE), KeyEvent(SDLK_UP, TRUE) }

CloseRequests == { QuitEvent, WindowEvent(SDL_WINDOWEVENT_CLOSE) }

\* the logical sizes and display scales a resize leads to
WindowSizes ==
    { [width |-> 1600, height |-> 900, scale |-> 100],
      [width |-> 800, height |-> 600, scale |-> 200],
      [width |-> 1, height |-> 1, scale |-> 100] }

RefreshRates == {60, 120}

FrameRates == {NULL, 30}

\* "hi", a red "x", erase the screen, erase the screen and then "hi"
Chunks ==
    { <<"h", "i">>, CSI(<<"3", "1">>, "m") \o <<"x">>, CSI(<<"2">>, "J"),
      CSI(<<"2">>, "J") \o <<"h", "i">> }

\* the characters that a font may fail to rasterise
BadChars == { {}, {"x"} }

\* the sets of BadChars that make a difference when the characters of chunk
\* and of the queued text commands are drawn
BadCharsFor(chunk) ==
    LET queued == uiRenderer.pendingCommands
        drawn == { chunk[k] : k \in 1..Len(chunk) }
                     \cup UNION { { queued[k].text[j] : j \in 1..Len(queued[k].text) } :
                                  k \in { i \in 1..Len(queued) :
                                            queued[i].type = "text" } }
    IN  { bad \in BadChars : bad \subseteq drawn }

Init ==
    /\ \E existing \in BOOLEAN, frameRate \in FrameRates :
         LET w0 == [win |-> NULL, ui |-> NULL, tr |-> NULL, ap |-> NewAnsiParser,
                    ib |-> NewInputBridge, is |-> NewInputStream,
                    sdl |-> NewSdl(TRUE), node |-> NewNode,
                    obs |-> NothingObserved, ret |-> NULL, polled |-> NULL, thrown |-> "none"]
         IN  Starts([createSdlStreams(w0, existing, frameRate, undefined, NULL)
                        EXCEPT !.ret = NULL])
    /\ opsUsed = 0
    /\ HarnessOff

\* the native side queues an event for the window
Post(event) ==
    /\ opsUsed < MaxOps
    /\ ~sdlWindow.closed
    /\ sdl' = [sdl EXCEPT !.events = Append(@, event)]
    /\ opsUsed' = opsUsed + 1
    /\ UNCHANGED <<node, textRenderer, uiRenderer, inputBridge, inputStream,
                   sdlWindow, observed, ansiParser>>
    /\ UNCHANGED harnessVars

\* the user presses or releases a key
SdlKey(event) == Post(event)

\* the window loses the keyboard focus
SdlFocusLost == Post(WindowEvent(SDL_WINDOWEVENT_FOCUS_LOST))

\* the user asks to close the window, or the application is asked to quit
SdlCloseRequest(event) == Post(event)

\* the user resizes the window or moves it to another display
SdlResize(size) ==
    /\ opsUsed < MaxOps
    /\ ~sdlWindow.closed
    /\ sdl' = [sdl EXCEPT !.windowWidth = size.width,
                          !.windowHeight = size.height,
                          !.displayScale = size.scale,
                          !.events = Append(@, WindowEvent(SDL_WINDOWEVENT_SIZE_CHANGED))]
    /\ opsUsed' = opsUsed + 1
    /\ UNCHANGED <<node, textRenderer, uiRenderer, inputBridge, inputStream,
                   sdlWindow, observed, ansiParser>>
    /\ UNCHANGED harnessVars

\* the display changes its refresh rate
SdlDisplayMode(refreshRate) ==
    /\ opsUsed < MaxOps
    /\ ~sdlWindow.closed
    /\ refreshRate # sdl.refreshRate
    /\ sdl' = [sdl EXCEPT !.refreshRate = refreshRate]
    /\ opsUsed' = opsUsed + 1
    /\ UNCHANGED <<node, textRenderer, uiRenderer, inputBridge, inputStream,
                   sdlWindow, observed, ansiParser>>
    /\ UNCHANGED harnessVars

\* what a tick may find outside the program, where it makes a difference
TickFinds ==
    LET q == sdl.events
        has(P(_)) == \E k \in 1..Len(q) : P(q[k])
        isResize(e) == e.type = SDL_WINDOWEVENT
                           /\ e.windowEvent = SDL_WINDOWEVENT_SIZE_CHANGED
        isBlur(e) == e.type = SDL_WINDOWEVENT
                         /\ e.windowEvent = SDL_WINDOWEVENT_FOCUS_LOST
        isClose(e) == e \in CloseRequests
        isKey(e) == e.type = SDL_KEYDOWN /\ ~isModifierKey(e.keycode)
        isC(e) == e.type = SDL_KEYDOWN /\ e.keycode = 99
        rateMayChange == sdlWindow.forcedFrameRate = NULL
                             /\ sdl.refreshRate # sdlWindow.currentRefreshRate
        closers == {"none"}
                     \cup (IF rateMayChange THEN {"frameRateChange"} ELSE {})
                     \cup (IF has(isResize) THEN {"resize"} ELSE {})
                     \cup (IF has(isBlur) THEN {"blur"} ELSE {})
                     \cup (IF has(isKey) THEN {"key"} ELSE {})
                     \cup (IF has(isC) THEN {"sigint"} ELSE {})
                     \cup (IF has(isClose) \/ uiRenderer.shouldQuit
                           THEN {"close"} ELSE {})
    IN  { t \in [due : IF rateMayChange THEN BOOLEAN ELSE {FALSE},
                 hasSigint : IF has(isC) THEN BOOLEAN ELSE {TRUE},
                 closer : closers,
                 fontOk : IF has(isResize) THEN BOOLEAN ELSE {TRUE},
                 textureOk : IF has(isResize) THEN BOOLEAN ELSE {TRUE}] :
            /\ t.closer = "frameRateChange" => t.due
            /\ t.closer = "sigint" => t.hasSigint }

TimerActive == \E h \in 1..Len(node.timers) : node.timers[h].clears = 0

\* an interval timer fires: runEventLoopIteration()
Tick(t) ==
    /\ TimerActive
    /\ Becomes(runEventLoopIteration(Begin(TheWorld), t))
    /\ UNCHANGED opsUsed
    /\ UNCHANGED harnessVars

\* stdout.write(chunk)
Write(chunk, bad) ==
    /\ opsUsed < MaxOps
    /\ Becomes(SdlOutputStream_write(Begin(TheWorld), chunk, bad))
    /\ opsUsed' = opsUsed + 1
    /\ UNCHANGED harnessVars

\* renderer.processAnsi(output)
ProcessAnsi(output) ==
    /\ opsUsed < MaxOps
    /\ Becomes(processAnsi(Begin(TheWorld), output))
    /\ opsUsed' = opsUsed + 1
    /\ UNCHANGED harnessVars

\* renderer.present()
Present(bad) ==
    /\ opsUsed < MaxOps
    /\ Becomes(present(Begin(TheWorld), bad))
    /\ opsUsed' = opsUsed + 1
    /\ UNCHANGED harnessVars

\* window.close()
Close ==
    /\ opsUsed < MaxOps
    /\ Becomes(closeCall(Begin(TheWorld)))
    /\ opsUsed' = opsUsed + 1
    /\ UNCHANGED harnessVars

\* renderer.destroy()
Destroy ==
    /\ opsUsed < MaxOps
    /\ Becomes(SdlUiRenderer_destroy(Begin(TheWorld)))
    /\ opsUsed' = opsUsed + 1
    /\ UNCHANGED harnessVars

\* the reader of stdin asks for data: _read()
Read ==
    /\ opsUsed < MaxOps
    /\ Becomes(SdlInputStream_read(Begin(TheWorld)))
    /\ opsUsed' = opsUsed + 1
    /\ UNCHANGED harnessVars

\* the scale factors an application sets: the display's own, and 2.0
ScaleFactors == {NULL, 200}

\* renderer.setScaleFactor(scaleFactor); the font and the texture may fail
\* to be created
SetScaleFactor(scaleFactor, fontOk, textureOk) ==
    /\ opsUsed < MaxOps
    /\ Becomes(setScaleFactor(Begin(TheWorld), scaleFactor, fontOk, textureOk))
    /\ opsUsed' = opsUsed + 1
    /\ UNCHANGED harnessVars

\* renderer.reset()
Reset ==
    /\ opsUsed < MaxOps
    /\ Becomes(SdlUiRenderer_reset(Begin(TheWorld)))
    /\ opsUsed' = opsUsed + 1
    /\ UNCHANGED harnessVars

Next ==
    \/ \E event \in Keys : SdlKey(event)
    \/ SdlFocusLost
    \/ \E event \in CloseRequests : SdlCloseRequest(event)
    \/ \E size \in WindowSizes : SdlResize(size)
    \/ \E refreshRate \in RefreshRates : SdlDisplayMode(refreshRate)
    \/ \E t \in TickFinds : Tick(t)
    \/ \E chunk \in Chunks : \E bad \in BadCharsFor(chunk) : Write(chunk, bad)
    \/ \E output \in Chunks : ProcessAnsi(output)
    \/ \E bad \in BadCharsFor(<<>>) : Present(bad)
    \/ Close
    \/ Destroy
    \/ Read
    \/ \E scaleFactor \in ScaleFactors, textureOk \in BOOLEAN :
          SetScaleFactor(scaleFactor, TRUE, textureOk)
    \/ Reset

Spec == Init /\ [][Next]_vars

\* ------------------------------------------------------------------------
\* Teardown
\* ------------------------------------------------------------------------

\* C4: close() is idempotent: a call on a closed window changes nothing, no
\* call raises an error, and every timer is cleared, the end of input
\* signalled and every native resource (glyph texture, render target, font,
\* renderer, window) destroyed at most once.
C4_CloseIdempotent ==
    /\ \A h \in 1..Len(sdl.resources) : sdl.resources[h].destroys <= 1
    /\ \A h \in 1..Len(node.timers) : node.timers[h].clears <= 1
    /\ inputStream.ended <= 1
    /\ ~observed.repeatChanged
    /\ observed.closeCalls >= 1 => observed.thrown = "none"

\* close() was called twice, and the first call tore down the timer, the
\* stream, a font, the render target, the renderer and the window
C4_Witness ==
    /\ observed.closeCalls >= 2
    /\ sdlWindow.closed
    /\ inputStream.ended = 1
    /\ \E h \in 1..Len(node.timers) : node.timers[h].clears = 1
    /\ \A kind \in {"font", "target", "renderer", "window"} :
         \E h \in 1..Len(sdl.resources) :
            sdl.resources[h].kind = kind /\ sdl.resources[h].destroys = 1

\* C5: a window and a renderer supplied by the caller are never destroyed,
\* whatever is done to the window, close() and destroy() included.
C5_CallerResourcesKept ==
    \A h \in 1..Len(sdl.resources) :
        sdl.resources[h].owner = "caller" => sdl.resources[h].destroys = 0

\* the window was built on the caller's window and renderer and has been
\* torn down: the library's fonts and render target are destroyed
C5_Witness ==
    /\ \E h \in 1..Len(sdl.resources) :
         sdl.resources[h].kind = "window" /\ sdl.resources[h].owner = "caller"
    /\ \E h \in 1..Len(sdl.resources) :
         sdl.resources[h].kind = "renderer" /\ sdl.resources[h].owner = "caller"
    /\ uiRenderer.window = NULL /\ uiRenderer.renderer = NULL
    /\ \A h \in 1..Len(sdl.resources) :
         sdl.resources[h].owner = "library" => sdl.resources[h].destroys = 1

\* ------------------------------------------------------------------------
\* Keys in a tick
\* ------------------------------------------------------------------------

isFocusLost(event) ==
    event.type = SDL_WINDOWEVENT /\ event.windowEvent = SDL_WINDOWEVENT_FOCUS_LOST

isModifierPress(event) ==
    event.type = SDL_KEYDOWN /\ isModifierKey(event.keycode)

isKeyEvent(event) == event.type = SDL_KEYDOWN \/ event.type = SDL_KEYUP

\* C6: after a tick that drained a focus-lost event with no modifier press
\* behind it in the queue, shift, ctrl and alt are all false.
C6_FocusLossClearsModifiers ==
    LET drained == observed.drained
    IN  (/\ observed.looped
         /\ \E k \in 1..Len(drained) :
              /\ isFocusLost(drained[k])
              /\ \A j \in (k + 1)..Len(drained) : ~isModifierPress(drained[j]))
        => inputBridge = [shift |-> FALSE, ctrl |-> FALSE, alt |-> FALSE]

\* the non-null sequences the Input Bridge returns for the key events, in
\* order, starting from the modifier flags given
RECURSIVE translations(_, _)
translations(modifiers, keyEvents) ==
    IF keyEvents = <<>> THEN <<>>
    ELSE LET r == processKeyEvent(modifiers, Head(keyEvents))
         IN  (IF isNonNullish(r.sequence) THEN <<r.sequence>> ELSE <<>>)
                 \o translations(r.modifiers, Tail(keyEvents))

isInterrupt(sequence) == sequence = <<ETX>>

isInput(sequence) == ~isInterrupt(sequence)

C9_ExecutedInEmissionOrder ==
    /\ uiRenderer.pendingCommands = observed.emitted
    /\ observed.executed = observed.queued

\* a present() executed the commands of two chunks
C9_Witness ==
    /\ observed.chunksDone >= 2
    /\ Len(observed.executed) >= 2
    /\ observed.executed = observed.queued
    /\ Len(observed.parsed) >= 1
    /\ Len(observed.parsed) < Len(observed.executed)

\* C10: when a write has reported completion, the commands parsed from its
\* chunk have been executed, none is left in the queue, and the screen shows
\* the persistent surface.
C10_WriteCompletes ==
    observed.callback = "null" =>
        /\ uiRenderer.pendingCommands = <<>>
        /\ Len(observed.parsed) <= Len(observed.executed)
        /\ \A k \in 1..Len(observed.parsed) :
             observed.executed[Len(observed.executed) - Len(observed.parsed) + k]
                 = observed.parsed[k]
        /\ sdl.screen = sdl.surface

\* ------------------------------------------------------------------------
\* Resize
\* ------------------------------------------------------------------------

\* C11: when a resize has been handled, the render target has the physical
\* drawable size, and the grid is floor(drawable / cell) raised to the
\* minimum, so columns >= MIN_COLUMNS and rows >= MIN_ROWS, down to a window
\* of one pixel.
C11_ResizeFitsSurfaceAndGrid ==
    \A k \in 1..Len(observed.resizes) :
        LET r == observed.resizes[k]
        IN  /\ r.surface = r.drawable
            /\ r.columns >= MIN_COLUMNS
            /\ r.rows >= MIN_ROWS
            /\ r.columns >= r.drawable.width \div r.charWidth
            /\ r.rows >= r.drawable.height \div r.charHeight

\* a resize to less than one cell was handled
C11_Witness ==
    \E k \in 1..Len(observed.resizes) :
        LET r == observed.resizes[k]
        IN  /\ r.drawable.width < r.charWidth
            /\ r.drawable.height < r.charHeight
            /\ r.surface = r.drawable
            /\ r.columns = MIN_COLUMNS /\ r.rows = MIN_ROWS

\* ------------------------------------------------------------------------
\* The input bridge on its own: one InputBridge, any sequence of key events
\* ------------------------------------------------------------------------

ModifierKeys ==
    {SDLK_LSHIFT, SDLK_RSHIFT, SDLK_LCTRL, SDLK_RCTRL, SDLK_LALT, SDLK_RALT}

SpecialKeys ==
    {SDLK_UP, SDLK_DOWN, SDLK_RIGHT, SDLK_LEFT, SDLK_HOME, SDLK_END,
     SDLK_PAGEUP, SDLK_PAGEDOWN, SDLK_RETURN, SDLK_ESCAPE, SDLK_BACKSPACE,
     SDLK_TAB, SDLK_DELETE, SDLK_SPACE} \cup (SDLK_F1..SDLK_F12)

\* the keycodes of the key events: the modifier keys, the special keys,
\* every printable character and a key the bridge has no entry for (the
\* keycode after F12)
KeyCodes ==
    ModifierKeys \cup SpecialKeys
        \cup (ASCII_PRINTABLE_START..ASCII_PRINTABLE_END) \cup {SDLK_F12 + 1}

\* the last processKeyEvent() call: its event, the modifier flags when it
\* was made and the sequence it returned
NoKeyCall ==
    [called |-> FALSE, event |-> [keycode |-> NULL, pressed |-> FALSE],
     before |-> NewInputBridge, sequence |-> null]

InitKeys ==
    /\ inputBridge = NewInputBridge
    /\ observed = NoKeyCall
    /\ ansiParser = NewAnsiParser
    /\ sdl = NULL
    /\ node = NULL
    /\ textRenderer = NULL
    /\ uiRenderer = NULL
    /\ inputStream = NULL
    /\ sdlWindow = NULL
    /\ opsUsed = 0
    /\ HarnessOff

\* processKeyEvent(event)
BridgeKeyEvent(event) ==
    /\ inputBridge' = processKeyEvent(inputBridge, event).modifiers
    /\ observed' = [called |-> TRUE, event |-> event, before |-> inputBridge,
                    sequence |-> processKeyEvent(inputBridge, event).sequence]
    /\ UNCHANGED <<ansiParser, sdl, node, textRenderer, uiRenderer,
                   inputStream, sdlWindow, opsUsed>>
    /\ UNCHANGED harnessVars

NextKeys ==
    \E keycode \in KeyCodes, pressed \in BOOLEAN :
        BridgeKeyEvent([keycode |-> keycode, pressed |-> pressed])

SpecKeys == InitKeys /\ [][NextKeys]_vars

\* ------------------------------------------------------------------------
\* Claims about the input bridge
\* ------------------------------------------------------------------------

\* C12: processKeyEvent returns a sequence only for the press of a key that
\* is not a modifier: every event of a modifier key, press or release,
\* returns null, and every release of any other key returns null.
C12_SequenceOnlyOnPress ==
    observed.called =>
        /\ isModifierKey(observed.event.keycode) => observed.sequence = null
        /\ ~observed.event.pressed => observed.sequence = null

\* 'a' was released while ctrl and shift were held, and nothing was returned
C12_Witness ==
    /\ observed.called
    /\ observed.event = [keycode |-> ASCII_A_LOWER, pressed |-> FALSE]
    /\ observed.before.ctrl /\ observed.before.shift
    /\ observed.sequence = null

\* C13: a letter key a..z pressed while ctrl is held returns the one
\* control character whose code is the letter's code minus 96 (1..26).
C13_CtrlLetter ==
    /\ observed.called
    /\ observed.event.pressed
    /\ observed.before.ctrl
    /\ observed.event.keycode \in 97..122
    => /\ observed.sequence = <<observed.event.keycode - 96>>
       /\ observed.sequence[1] \in 1..26

\* ctrl+z returned the character 26, with shift and alt held as well
C13_Witness ==
    /\ observed.called
    /\ observed.event = [keycode |-> 122, pressed |-> TRUE]
    /\ observed.before = [shift |-> TRUE, ctrl |-> TRUE, alt |-> TRUE]
    /\ observed.sequence = <<26>>

\* C14: the space key pressed while ctrl is held returns NUL (code 0).
C14_CtrlSpaceIsNul ==
    /\ observed.called
    /\ observed.event = [keycode |-> SDLK_SPACE, pressed |-> TRUE]
    /\ observed.before.ctrl
    => observed.sequence = <<0>>

\* ------------------------------------------------------------------------
\* The parser on SGR sequences: one parser, any sequence of parse() calls
\* whose input is one SGR sequence
\* ------------------------------------------------------------------------

\* the number of parameters of an SGR sequence
MaxSgrCodes == 3

\* the parameters the lists are made of: reset, bold, normal intensity, red,
\* blue background, the extended foreground code and the RGB mode
SgrParams ==
    { <<"0">>, <<"1">>, <<"2", "2">>, <<"3", "1">>, <<"4", "4">>, <<"3", "8">>,
      <<"2">> }

\* extended colours with the other code and the other mode, complete and not
ExtendedParams ==
    { <<"4", "8">>, <<"4", "8", ";", "5">>, <<"4", "8", ";", "2", ";", "3", "1">>,
      <<"3", "8", ";", "5">>, <<"3", "8", ";", "5", ";", "1">>,
      <<"4", "8", ";", "5", ";", "4">>,
      <<"3", "8", ";", "2", ";", "1", ";", "2", ";", "3">> }

\* Array.prototype.join(";")
RECURSIVE Join(_)
Join(parts) ==
    IF Len(parts) = 0 THEN <<>>
    ELSE IF Len(parts) = 1 THEN parts[1]
    ELSE parts[1] \o <<";">> \o Join(Tail(parts))

SgrInputs ==
    { CSI(<<>>, "m") } \cup { CSI(q, "m") : q \in ExtendedParams } \cup
    { CSI(Join(l), "m") :
        l \in UNION { [1..n -> SgrParams] : n \in 1..MaxSgrCodes } }

NextSgr ==
    \/ \E s \in SgrInputs : ParseCall(s)
    \/ TakeCommands

SpecSgr == InitParser /\ [][NextSgr]_vars

\* ------------------------------------------------------------------------
\* Claims about SGR sequences
\* ------------------------------------------------------------------------

\* the parameter string of the SGR sequence that was parsed, and its codes
sgrParamsOf(s) == SubSeq(s, 3, Len(s) - 1)

sgrCodesOf(s) ==
    LET parts == Split(sgrParamsOf(s), ";")
    IN  [k \in 1..Len(parts) |-> OrElse(ParseInt(parts[k]), 0)]

\* C15: an SGR sequence whose parameter is 0 or empty puts foreground,
\* background and bold back to their defaults and emits exactly reset_style,
\* set_fg with the default foreground, set_bg with the default background,
\* in this order.
C15_ResetEmitsDefaults ==
    parsePc = "returned" /\ input \in {CSI(<<>>, "m"), CSI(<<"0">>, "m")}
    => /\ ansiParser.fgColor = DEFAULT_FG
       /\ ansiParser.bgColor = DEFAULT_BG
       /\ ansiParser.bold = FALSE
       /\ commands = << [type |-> "reset_style"],
                        [type |-> "set_fg", color |-> DEFAULT_FG],
                        [type |-> "set_bg", color |-> DEFAULT_BG] >>

\* the empty SGR sequence was parsed by a parser that was bold with a
\* foreground and a background of its own
C15_Witness ==
    /\ parsePc = "returned"
    /\ input = CSI(<<>>, "m")
    /\ prevParser.bold
    /\ prevParser.fgColor # DEFAULT_FG
    /\ prevParser.bgColor # DEFAULT_BG
    /\ ansiParser.bold = FALSE
    /\ ansiParser.fgColor = DEFAULT_FG
    /\ ansiParser.bgColor = DEFAULT_BG
    /\ Len(commands) = 3

\* the types of the commands one code of 0, 1, 22 or 31 pushes
typesOfCode(code) ==
    CASE code = 0 -> <<"reset_style", "set_fg", "set_bg">>
      [] code = 1 -> <<"set_bold">>
      [] code = 22 -> <<"set_bold", "set_dim">>
      [] code = 31 -> <<"set_fg">>

RECURSIVE typesOfCodes(_)
typesOfCodes(codes) ==
    IF codes = <<>> THEN <<>>
    ELSE typesOfCode(Head(codes)) \o typesOfCodes(Tail(codes))

\* the bold flag when the k-th command was pushed: what the last set_bold or
\* reset_style before it left, or the flag the call started with
boldBefore(k) ==
    LET S == { j \in 1..(k - 1) : commands[j].type \in {"set_bold", "reset_style"} }
    IN  IF S = {} THEN prevParser.bold
        ELSE LET j == CHOOSE m \in S : \A n \in S : n <= m
             IN  commands[j].type = "set_bold" /\ commands[j].enabled

\* the foreground after the commands: the colour of the last set_fg, or the
\* foreground the call started with
fgAfterCommands ==
    LET S == { j \in 1..Len(commands) : commands[j].type = "set_fg" }
    IN  IF S = {} THEN prevParser.fgColor
        ELSE commands[CHOOSE m \in S : \A n \in S : n <= m].color

\* C16: the codes of an SGR sequence are applied from left to right; code 31
\* selects the bright red exactly when the bold flag is set when the code is
\* processed; a later 22 clears the bold flag and leaves the foreground that
\* was selected.
C16_BoldAtSelection ==
    /\ parsePc = "returned"
    /\ input # CSI(<<>>, "m")
    /\ \A k \in 1..Len(sgrCodesOf(input)) : sgrCodesOf(input)[k] \in {0, 1, 22, 31}
    => /\ [k \in 1..Len(commands) |-> commands[k].type]
              = typesOfCodes(sgrCodesOf(input))
       /\ \A k \in 1..Len(commands) :
            /\ commands[k].type = "set_fg"
            /\ ~(k > 1 /\ commands[k - 1].type = "reset_style")
            => commands[k].color = IF boldBefore(k) THEN ANSI_COLORS_BRIGHT[2]
                                   ELSE ANSI_COLORS_NORMAL[2]
       /\ ansiParser.bold = boldBefore(Len(commands) + 1)
       /\ ansiParser.fgColor = fgAfterCommands

\* 1;31;22 was parsed by a parser that was not bold: bright red, not bold
C16_Witness ==
    /\ parsePc = "returned"
    /\ input = CSI(<<"1", ";", "3", "1", ";", "2", "2">>, "m")
    /\ ~prevParser.bold
    /\ commands[2] = [type |-> "set_fg", color |-> ANSI_COLORS_BRIGHT[2]]
    /\ ansiParser.fgColor = ANSI_COLORS_BRIGHT[2]
    /\ ~ansiParser.bold

\* the 1-based index of the first extended-colour code of codes, or 0
firstExtended(codes) ==
    LET S == { k \in 1..Len(codes) : codes[k] \in {SGR_EXTENDED, SGR_EXTENDED_BG} }
    IN  IF S = {} THEN 0 ELSE CHOOSE m \in S : \A n \in S : m <= n

\* the extended-colour code at index k has no mode, or a mode that needs
\* more parameters than follow it
lacksParams(codes, k) ==
    \/ k = Len(codes)
    \/ codes[k + 1] = EXTENDED_256 /\ k + 2 > Len(codes)
    \/ codes[k + 1] = EXTENDED_RGB /\ k + 4 > Len(codes)

\* codes without the n entries from index k on
without(codes, k, n) ==
    SubSeq(codes, 1, k - 1) \o SubSeq(codes, k + n, Len(codes))

\* what the while loop of processSGR does with codes on the parser as it was
\* before the call
sgrOf(codes) ==
    sgrLoop([p |-> prevParser, commands |-> <<>>, textBuffer |-> <<>>], codes, 0)

\* C17: an extended-colour code (38 or 48) that lacks parameters for its
\* mode changes no colour and emits no command, and every code after it in
\* the list is processed as an ordinary code.
C17_OnlyExtendedCodeSkipped ==
    LET codes == sgrCodesOf(input)
        k == firstExtended(codes)
    IN  /\ parsePc = "returned"
        /\ input # CSI(<<>>, "m")
        /\ k > 0
        /\ lacksParams(codes, k)
        => /\ commands = sgrOf(without(codes, k, 1)).commands
           /\ ansiParser = sgrOf(without(codes, k, 1)).p

\* what parse() does: the mode parameter is passed over together with the
\* extended-colour code, and the codes after the mode are processed
ExtendedCodeAndModeSkipped ==
    LET codes == sgrCodesOf(input)
        k == firstExtended(codes)
    IN  /\ parsePc = "returned"
        /\ input # CSI(<<>>, "m")
        /\ k > 0
        /\ lacksParams(codes, k)
        => /\ commands = sgrOf(without(codes, k, 2)).commands
           /\ ansiParser = sgrOf(without(codes, k, 2)).p

\* ------------------------------------------------------------------------
\* Malformed input
\* ------------------------------------------------------------------------

\* a colour with its three channels in 0..COLOR_CHANNEL_MAX
isColor(c) ==
    /\ c.r \in 0..COLOR_CHANNEL_MAX
    /\ c.g \in 0..COLOR_CHANNEL_MAX
    /\ c.b \in 0..COLOR_CHANNEL_MAX

\* a DrawCommand with the fields of its type
isDrawCommand(cmd) ==
    CASE cmd.type = "text" ->
            Len(cmd.text) > 0 /\ cmd.row \in Int /\ cmd.col \in Int
      [] cmd.type \in {"cursor_move", "clear_line"} ->
            cmd.row \in Int /\ cmd.col \in Int
      [] cmd.type \in {"clear_screen", "reset_style"} -> TRUE
      [] cmd.type \in {"set_fg", "set_bg"} -> isColor(cmd.color)
      [] cmd.type \in {"set_bold", "set_dim", "set_italic", "set_underline",
                       "set_reverse", "set_strikethrough"} ->
            cmd.enabled \in BOOLEAN
      [] OTHER -> FALSE

\* C18: parse() returns a list of draw commands for every input, a lone ESC,
\* ESC before a character other than '[', a CSI sequence without terminator
\* and parameters that are out of range or not numbers included, and leaves
\* the parser with a cursor of two integers and two colours.
C18_ParseReturnsCommands ==
    parsePc = "returned" =>
        /\ \A k \in 1..Len(commands) : isDrawCommand(commands[k])
        /\ ansiParser.cursorRow \in Int
        /\ ansiParser.cursorCol \in Int
        /\ isColor(ansiParser.fgColor)
        /\ isColor(ansiParser.bgColor)
        /\ ansiParser.bold \in BOOLEAN

\* an RGB background with three channels of -5 was parsed by a parser with
\* a background of its own
C18_Witness ==
    /\ parsePc = "returned"
    /\ input = CSI(<<"4", "8", ";", "2", ";", "-", "5", ";", "-", "5", ";", "-", "5">>, "m")
    /\ prevParser.bgColor # DEFAULT_BG
    /\ commands = << [type |-> "set_bg", color |-> [r |-> 0, g |-> 0, b |-> 0]] >>

\* ------------------------------------------------------------------------
\* The input stream on its own: one SdlInputStream, its feeder and the
\* Readable machinery that asks it for data on behalf of a reader
\* ------------------------------------------------------------------------

\* the number of calls on the stream
MaxStreamOps == 5

\* the sequences of 'a', of 'b' and of the up arrow
StreamSequences == { <<97>>, <<98>>, <<ESC, LBRACKET, 65>> }

\* the stream and its history as the record the stream's operators work on
TheStream == [is |-> inputStream, obs |-> observed]

\* pushed: the arguments of the pushKey() calls; delivered: the arguments of
\* the this.push() calls; cleared: clear() was called; asked: the last call
\* was _read(); woken: the pushKey() calls that found the reader waiting
InitStream ==
    /\ inputStream = NewInputStream
    /\ observed = [pushed |-> <<>>, delivered |-> <<>>, cleared |-> FALSE,
                   asked |-> FALSE, woken |-> 0]
    /\ opsUsed = 0
    /\ ansiParser = NewAnsiParser
    /\ sdl = NULL
    /\ node = NULL
    /\ textRenderer = NULL
    /\ uiRenderer = NULL
    /\ inputBridge = NULL
    /\ sdlWindow = NULL
    /\ HarnessOff

StreamStep(w) ==
    /\ opsUsed < MaxStreamOps
    /\ inputStream' = w.is
    /\ observed' = w.obs
    /\ opsUsed' = opsUsed + 1
    /\ UNCHANGED <<ansiParser, sdl, node, textRenderer, uiRenderer,
                   inputBridge, sdlWindow>>
    /\ UNCHANGED harnessVars

\* pushKey(sequence)
StreamPushKey(sequence) ==
    StreamStep(pushKey([TheStream EXCEPT
                           !.obs.asked = FALSE,
                           !.obs.woken = IF inputStream.waiting THEN @ + 1 ELSE @],
                       sequence))

\* the Readable calls _read(): it does so when its reader wants data, the
\* end has not been pushed and the last _read() call has pushed something
StreamRead ==
    /\ inputStream.ended = 0
    /\ ~inputStream.waiting
    /\ StreamStep(SdlInputStream_read([TheStream EXCEPT !.obs.asked = TRUE]))

\* clear()
StreamClear ==
    StreamStep(SdlInputStream_clear([TheStream EXCEPT !.obs.asked = FALSE,
                                                      !.obs.cleared = TRUE]))

\* close()
StreamClose ==
    StreamStep(SdlInputStream_close([TheStream EXCEPT !.obs.asked = FALSE]))

NextStream ==
    \/ \E sequence \in StreamSequences : StreamPushKey(sequence)
    \/ StreamRead
    \/ StreamClear
    \/ StreamClose

SpecStream == InitStream /\ [][NextStream]_vars

\* ------------------------------------------------------------------------
\* Claims about the input stream
\* ------------------------------------------------------------------------

\* what a reader receives of the chunks given to this.push(): the chunks
\* before the end; Readable.push() rejects a chunk that comes after
\* push(null) with ERR_STREAM_PUSH_AFTER_EOF
RECURSIVE received(_)
received(pushes) ==
    IF pushes = <<>> \/ Head(pushes) = EOF THEN <<>>
    ELSE <<Head(pushes)>> \o received(Tail(pushes))

\* every sequence pushed so far has been received or is in the buffer, in
\* the order of the pushKey() calls and once; nothing is in the buffer when
\* the reader has just asked or is waiting
inOrderOnce ==
    /\ received(observed.delivered) \o inputStream.buffer = observed.pushed
    /\ observed.asked \/ inputStream.waiting => inputStream.buffer = <<>>

\* C19: without clear(), the reader receives the pushed sequences in the
\* order of the pushes, each once, those pushed before it asks when it asks
\* and those pushed while it waits at once.
C19_DeliveredInOrderOnce == ~observed.cleared => inOrderOnce

\* C19 for a stream that has not been closed either
C19_DeliveredInOrderOnceUntilClose ==
    ~observed.cleared /\ inputStream.ended = 0 => inOrderOnce

\* three sequences were received in order, one of them pushed while the
\* reader was waiting, the others pushed before the reader asked
C19_Witness ==
    /\ ~observed.cleared
    /\ inputStream.ended = 0
    /\ observed.woken = 1
    /\ Len(observed.pushed) = 3
    /\ observed.pushed[1] # observed.pushed[2]
    /\ received(observed.delivered) = observed.pushed

\* ------------------------------------------------------------------------
\* Resize notification
\* ------------------------------------------------------------------------

\* the columns and rows getters of the output stream
SdlOutputStream_columns ==
    IF uiRenderer.columns = 0 THEN DEFAULT_COLUMNS ELSE uiRenderer.columns

SdlOutputStream_rows ==
    IF uiRenderer.rows = 0 THEN DEFAULT_ROWS ELSE uiRenderer.rows

\* C20: an operation that changes the (columns, rows) pair the output stream
\* reports also emits the stream's resize event, be it a window resize, a
\* change of the scale factor or a reset of the renderer.
C20_DimensionChangeNotified ==
    [][ <<SdlOutputStream_columns, SdlOutputStream_rows>>'
            # <<SdlOutputStream_columns, SdlOutputStream_rows>>
        => \E k \in 1..Len(observed'.emits) : observed'.emits[k] = "stream resize"
      ]_vars

\* ------------------------------------------------------------------------
\* After close()
\* ------------------------------------------------------------------------

\* C21: close() cancels the timer, then closes the input stream, then
\* destroys the renderer's resources; on a closed window no interval timer
\* is running, and a tick that fired all the same would not poll events, push
\* to the input stream or touch the renderer.
C21_NoTickAfterClose ==
    /\ observed.teardown \in {<<>>, <<"timer", "stream", "renderer">>}
    /\ sdlWindow.closed =>
          /\ ~TimerActive
          /\ sdlWindow.eventLoopHandle = NULL
          /\ \A t \in [due : BOOLEAN, hasSigint : BOOLEAN,
                       closer : {"none", "key", "close"},
                       fontOk : {TRUE}, textureOk : {TRUE}] :
                runEventLoopIteration(TheWorld, t) = TheWorld

\* the window was closed by a listener during a tick that had just replaced
\* the timer: both timers are cancelled
C21_Witness ==
    /\ sdlWindow.closed
    /\ observed.teardown = <<"timer", "stream", "renderer">>
    /\ Len(node.timers) = 2
    /\ observed.looped

\* ------------------------------------------------------------------------
\* Text runs
\* ------------------------------------------------------------------------

\* s is made of runs of characters and line breaks only: no tab and no
\* escape sequence
isPlain(s) ==
    /\ \A i \in 1..Len(s) : s[i] # "TAB"
    /\ \A i \in 1..(Len(s) - 1) : ~(s[i] = "ESC" /\ s[i + 1] = "[")

isBreak(c) == c \in {"LF", "CR"}

\* where the cursor is after the first n characters of the plain input s,
\* counted from the cursor the call started with: one row down for every
\* LF, and the column after the characters since the last line break
cursorAfter(s, n) ==
    LET breaks == { i \in 1..n : isBreak(s[i]) }
        last == IF breaks = {} THEN 0 ELSE CHOOSE m \in breaks : \A i \in breaks : i <= m
    IN  [row |-> prevParser.cursorRow + Cardinality({ i \in 1..n : s[i] = "LF" }),
         col |-> IF breaks = {} THEN prevParser.cursorCol + n ELSE 1 + (n - last)]

\* the end of the run of s that starts at i
RECURSIVE runEnd(_, _)
runEnd(s, i) ==
    IF i < Len(s) /\ ~isBreak(s[i + 1]) THEN runEnd(s, i + 1) ELSE i

\* the text commands for the runs of s from index i on, each at the cursor
\* position before its first character
RECURSIVE runsFrom(_, _)
runsFrom(s, i) ==
    IF i > Len(s) THEN <<>>
    ELSE IF isBreak(s[i]) THEN runsFrom(s, i + 1)
    ELSE << [type |-> "text", text |-> SubSeq(s, i, runEnd(s, i)),
             row |-> cursorAfter(s, i - 1).row,
             col |-> cursorAfter(s, i - 1).col] >>
         \o runsFrom(s, runEnd(s, i) + 1)

\* C22: every text command carries the row and column the cursor had when
\* its run of characters started; after the command the column is that
\* column plus the length of the run and the row is the same.
C22_TextAtRunStart ==
    parsePc = "returned" /\ isPlain(input)
    => /\ commands = runsFrom(input, 1)
       /\ ansiParser.cursorRow = cursorAfter(input, Len(input)).row
       /\ ansiParser.cursorCol = cursorAfter(input, Len(input)).col
       /\ Len(commands) > 0 /\ ~isBreak(input[Len(input)])
          => /\ ansiParser.cursorCol = commands[Len(commands)].col
                                           + Len(commands[Len(commands)].text)
             /\ ansiParser.cursorRow = commands[Len(commands)].row

\* "ab", a carriage return and "c" were parsed by a parser whose cursor was
\* not at the start of a line
C22_Witness ==
    /\ parsePc = "returned"
    /\ input = <<"a", "b", "CR", "c">>
    /\ prevParser.cursorCol = 3
    /\ prevParser.cursorRow = 2
    /\ commands = << [type |-> "text", text |-> <<"a", "b">>, row |-> 2, col |-> 3],
                     [type |-> "text", text |-> <<"c">>, row |-> 2, col |-> 1] >>
    /\ ansiParser.cursorCol = 2

\* ------------------------------------------------------------------------
\* Erase display
\* ------------------------------------------------------------------------

\* C23: an erase-display sequence with mode 2 or 3 emits one clear_screen
\* command and puts the parser's cursor at (1, 1).
C23_EraseDisplayHomes ==
    parsePc = "returned" /\ input \in {CSI(<<"2">>, "J"), CSI(<<"3">>, "J")}
    => /\ commands = << [type |-> "clear_screen"] >>
       /\ ansiParser.cursorRow = 1
       /\ ansiParser.cursorCol = 1

\* ESC[3J was parsed by a parser whose cursor was elsewhere
C23_Witness ==
    /\ parsePc = "returned"
    /\ input = CSI(<<"3">>, "J")
    /\ prevParser.cursorRow > 1
    /\ prevParser.cursorCol > 1
    /\ ansiParser.cursorRow = 1
    /\ ansiParser.cursorCol = 1
    /\ Len(commands) = 1

\* ------------------------------------------------------------------------
\* Tab
\* ------------------------------------------------------------------------

\* the text command of n spaces at (row, col)
spacesAt(n, row, col) ==
    [type |-> "text", text |-> [k \in 1..n |-> " "], row |-> row, col |-> col]

\* c is the first tab stop after column from: the stops are 8 columns apart
\* and column 1 is one of them
isNextStop(c, from) == c > from /\ c - from <= 8 /\ c % 8 = 1

\* C24: a tab moves the cursor column to the next tab stop strictly after
\* the current column, the stops being 8 columns apart, and emits one text
\* command at the column before the tab made of as many spaces as the column
\* advanced; the row stays.
C24_TabToNextStop ==
    /\ parsePc = "returned" /\ input = <<"TAB">>
       => /\ isNextStop(ansiParser.cursorCol, prevParser.cursorCol)
          /\ ansiParser.cursorRow = prevParser.cursorRow
          /\ commands = << spacesAt(ansiParser.cursorCol - prevParser.cursorCol,
                                    prevParser.cursorRow, prevParser.cursorCol) >>
    /\ parsePc = "returned" /\ input = <<"a", "TAB", "b">>
       => /\ Len(commands) = 3
          /\ isNextStop(commands[3].col, prevParser.cursorCol + 1)
          /\ commands[2] = spacesAt(commands[3].col - (prevParser.cursorCol + 1),
                                    prevParser.cursorRow, prevParser.cursorCol + 1)
          /\ commands[3].text = <<"b">>
          /\ ansiParser.cursorCol = commands[3].col + 1

\* a tab was parsed with the cursor on the column before a tab stop, and
\* moved it by one column
C24_Witness ==
    /\ parsePc = "returned"
    /\ input = <<"TAB">>
    /\ prevParser.cursorCol = 8
    /\ ansiParser.cursorCol = 9
    /\ commands[1].text = <<" ">>

\* ------------------------------------------------------------------------
\* The parser on 256-colour foregrounds: one parser, any sequence of parse()
\* calls whose input is ESC [ 38 ; 5 ; index m, for every index
\* ------------------------------------------------------------------------

\* String(n) for a natural number n
RECURSIVE Decimal(_)
Decimal(n) ==
    IF n < 10 THEN <<DigitChars[n + 1]>>
    ELSE Decimal(n \div 10) \o <<DigitChars[(n % 10) + 1]>>

ColorInput(index) == CSI(<<"3", "8", ";", "5", ";">> \o Decimal(index), "m")

ColorInputs == { ColorInput(index) : index \in 0..GRAYSCALE_END }

NextColors ==
    \/ \E s \in ColorInputs : ParseCall(s)
    \/ TakeCommands

SpecColors == InitParser /\ [][NextColors]_vars

\* the value of a cube axis level
cubeLevel(L) == IF L = 0 THEN 0 ELSE L * 40 + 55

\* the colour of index i as the table, the cube and the grey ramp give it
colorOfIndex(i) ==
    IF i <= 7 THEN ANSI_COLORS_NORMAL[i + 1]
    ELSE IF i <= 15 THEN ANSI_COLORS_BRIGHT[i - 7]
    ELSE IF i <= 231
    THEN [r |-> cubeLevel((i - 16) \div 36),
          g |-> cubeLevel(((i - 16) \div 6) % 6),
          b |-> cubeLevel((i - 16) % 6)]
    ELSE [r |-> (i - 232) * 10 + 8, g |-> (i - 232) * 10 + 8,
          b |-> (i - 232) * 10 + 8]

\* C25: for every index 0..255 the 256-colour conversion returns the
\* 16-colour table entry for 0-15, the cube colour whose axis level L is 0
\* for L = 0 and L*40+55 otherwise for 16-231, and the grey level
\* (index-232)*10+8 on all three channels for 232-255.
C25_Ansi256Colors ==
    \A i \in 0..255 :
        parsePc = "returned" /\ input = ColorInput(i)
        => /\ commands = << [type |-> "set_fg", color |-> colorOfIndex(i)] >>
           /\ ansiParser.fgColor = colorOfIndex(i)

\* index 17, the first cube colour with both a zero and a non-zero level,
\* was selected after the last grey
C25_Witness ==
    /\ parsePc = "returned"
    /\ input = ColorInput(17)
    /\ prevParser.fgColor = [r |-> 238, g |-> 238, b |-> 238]
    /\ commands = << [type |-> "set_fg", color |-> [r |-> 0, g |-> 0, b |-> 95]] >>

\* ------------------------------------------------------------------------
\* Alt combinations
\* ------------------------------------------------------------------------

\* C26: a letter key pressed while alt is held (and neither ctrl nor shift)
\* yields the ESC character followed by that letter.
C26_AltLetterEscapes ==
    /\ observed.called
    /\ observed.event.pressed
    /\ observed.event.keycode \in 97..122
    /\ observed.before = [shift |-> FALSE, ctrl |-> FALSE, alt |-> TRUE]
    => observed.sequence = <<27, observed.event.keycode>>

\* ------------------------------------------------------------------------
\* The close event
\* ------------------------------------------------------------------------

\* C27: whenever the window becomes closed, by a native close request or by
\* a call of close(), the operation that closed it emits the "close" event.
C27_CloseEventOnEveryClose ==
    observed.teardown # <<>>
    => \E k \in 1..Len(observed.emits) : observed.emits[k] = "close"

\* ------------------------------------------------------------------------
\* The parser across present()
\* ------------------------------------------------------------------------

\* C28: after processAnsi(s) followed by present(), which is what a write
\* of s does, the parser's cursor position and style are what parsing s
\* alone leaves them at: executing the queued commands does not rewind the
\* parser, whatever follows a clear-screen sequence in s.
C28_PresentKeepsParserState ==
    [][ \A chunk \in Chunks :
            Write(chunk, {}) => ansiParser' = parse(ansiParser, chunk).p
      ]_vars

\* ------------------------------------------------------------------------
\* Keys after the end of the input
\* ------------------------------------------------------------------------

\* C29: no key sequence is pushed to the input stream after the stream's
\* end-of-data signal was sent, even when a resize, blur, sigint or key
\* listener calls close() in the middle of a tick that has key events left.
C29_NoKeyAfterEnd == observed.lateKeys = <<>>

\* ------------------------------------------------------------------------
\* The window system with a configured background: createSdlStreams({
\* backgroundColor }), then chunks are parsed and presented
\* ------------------------------------------------------------------------

\* no option, blue as an array, red and blue as strings, and strings that
\* are not colours
BackgroundColors ==
    { undefined,
      [kind |-> "array", value |-> <<0, 0, 255>>],
      [kind |-> "string", value |-> <<"#", "f", "f", "0", "0", "0", "0">>],
      [kind |-> "string", value |-> <<"0", "0", "0", "0", "F", "F">>],
      [kind |-> "string", value |-> <<"#", "f", "f", "f">>],
      [kind |-> "string", value |-> <<"b", "l", "u", "e", "!", "!">>],
      [kind |-> "string", value |-> <<>>] }

\* SGR reset in both spellings, a blue background, "hi", erase the screen
BackgroundChunks ==
    { CSI(<<>>, "m"), CSI(<<"0">>, "m"), CSI(<<"4", "4">>, "m"), <<"h", "i">>,
      CSI(<<"2">>, "J") }

InitBackground ==
    /\ \E existing \in BOOLEAN, backgroundColor \in BackgroundColors :
         LET w0 == [win |-> NULL, ui |-> NULL, tr |-> NULL, ap |-> NewAnsiParser,
                    ib |-> NewInputBridge, is |-> NewInputStream,
                    sdl |-> NewSdl(TRUE), node |-> NewNode,
                    obs |-> NothingObserved, ret |-> NULL, polled |-> NULL,
                    thrown |-> "none"]
         IN  Starts([createSdlStreams(w0, existing, NULL, backgroundColor, NULL)
                        EXCEPT !.ret = NULL])
    /\ opsUsed = 0
    /\ HarnessOff

NextBackground ==
    \/ \E output \in BackgroundChunks : ProcessAnsi(output)
    \/ Present({})
    \/ \E chunk \in BackgroundChunks : Write(chunk, {})

SpecBackground == InitBackground /\ [][NextBackground]_vars

\* the last three commands that were executed are those of an SGR reset
resetExecuted ==
    LET n == Len(observed.executed)
    IN  /\ n >= 3
        /\ observed.executed[n - 2].type = "reset_style"
        /\ observed.executed[n - 1].type = "set_fg"
        /\ observed.executed[n].type = "set_bg"

\* C30: after the renderer executed the reset_style, set_fg and set_bg
\* commands the parser emits for an SGR reset, the renderer's current
\* background colour is the configured default background colour, whatever
\* background was configured.
C30_ResetRestoresBackground ==
    resetExecuted => uiRenderer.bgColor = uiRenderer.defaultBgColor

\* ------------------------------------------------------------------------
\* The input bridge and the keys that are down: one InputBridge, the six
\* modifier keys and the letter a, pressed and released as a keyboard can
\* (a key is released only when it is down)
\* ------------------------------------------------------------------------

\* the last processKeyEvent() call as in NoKeyCall, and the set of keys that
\* are down
NoKeyDown ==
    [called |-> FALSE, event |-> [keycode |-> NULL, pressed |-> FALSE],
     before |-> NewInputBridge, sequence |-> null, held |-> {}]

InitModifiers ==
    /\ inputBridge = NewInputBridge
    /\ observed = NoKeyDown
    /\ ansiParser = NewAnsiParser
    /\ sdl = NULL
    /\ node = NULL
    /\ textRenderer = NULL
    /\ uiRenderer = NULL
    /\ inputStream = NULL
    /\ sdlWindow = NULL
    /\ opsUsed = 0
    /\ HarnessOff

\* the user presses or releases a key: processKeyEvent(event)
KeyboardEvent(event) ==
    /\ ~event.pressed => event.keycode \in observed.held
    /\ inputBridge' = processKeyEvent(inputBridge, event).modifiers
    /\ observed' = [called |-> TRUE, event |-> event, before |-> inputBridge,
                    sequence |-> processKeyEvent(inputBridge, event).sequence,
                    held |-> IF event.pressed
                             THEN observed.held \cup {event.keycode}
                             ELSE observed.held \ {event.keycode}]
    /\ UNCHANGED <<ansiParser, sdl, node, textRenderer, uiRenderer,
                   inputStream, sdlWindow, opsUsed>>
    /\ UNCHANGED harnessVars

NextModifiers ==
    \E keycode \in ModifierKeys \cup {ASCII_A_LOWER}, pressed \in BOOLEAN :
        KeyboardEvent([keycode |-> keycode, pressed |-> pressed])

SpecModifiers == InitModifiers /\ [][NextModifiers]_vars

\* C31: with no reset(), each modifier flag (shift, ctrl, alt) is true
\* exactly when at least one of its two keys, left or right, is down, for
\* every interleaving of presses and releases of the two keys.
C31_FlagIffAKeyIsDown ==
    /\ inputBridge.shift <=> observed.held \cap {SDLK_LSHIFT, SDLK_RSHIFT} # {}
    /\ inputBridge.ctrl <=> observed.held \cap {SDLK_LCTRL, SDLK_RCTRL} # {}
    /\ inputBridge.alt <=> observed.held \cap {SDLK_LALT, SDLK_RALT} # {}

\* ------------------------------------------------------------------------
\* Executing clear_screen
\* ------------------------------------------------------------------------

\* the index of the last clear_screen among the commands executed, or 0
lastClear ==
    LET ks == { k \in 1..Len(observed.executed) :
                  observed.executed[k].type = "clear_screen" }
    IN  IF ks = {} THEN 0 ELSE CHOOSE k \in ks : \A j \in ks : j <= k

\* C32: executing a clear_screen command fills the whole persistent surface
\* with the configured default background colour, leaving nothing drawn
\* before it, and resets the parser's cursor to (1,1) and its style to the
\* defaults.
C32_ClearScreenFillsAndResets ==
    lastClear > 0
    => /\ sdl.surface.fill = uiRenderer.defaultBgColor
       /\ ansiParser = NewAnsiParser
       /\ lastClear = Len(observed.executed) => sdl.surface.ops = <<>>

\* on a window configured blue, a blue ANSI background was written and then
\* the screen was cleared: the surface is the configured blue, not the
\* current background, and the parser's background is the default again
C32_Witness ==
    /\ opsUsed = 2
    /\ observed.executed = << [type |-> "clear_screen"] >>
    /\ uiRenderer.defaultBgColor = [r |-> 0, g |-> 0, b |-> 255]
    /\ uiRenderer.bgColor = ANSI_COLORS_NORMAL[5]
    /\ sdl.surface = [fill |-> [r |-> 0, g |-> 0, b |-> 255], ops |-> <<>>]
    /\ ansiParser = NewAnsiParser

\* ------------------------------------------------------------------------
\* The glyph cache under requests alone: one TextRenderer, any sequence of
\* glyph requests that all rasterise, long enough for a hit before an
\* eviction
\* ------------------------------------------------------------------------

\* the number of glyph requests
MaxLruOps == 6

LruChars == {"a", "b", "c"}

\* the key of the request under way is recorded in obs.key, and the keys of
\* all the requests in obs.requested
requestedKey(w, char, color, italic) ==
    LET key == getCacheKey(char, color.r, color.g, color.b, italic)
    IN  [w EXCEPT !.obs.key = key, !.obs.requested = @ \cup {key}]

\* renderChar(char, x, y, color, italic) of a character the font has
LruRenderChar(char, italic) ==
    /\ opsUsed < MaxLruOps
    /\ Becomes(requestedKey(renderChar(Begin(TheWorld), char, 0, 0, DEFAULT_FG,
                                       italic, TRUE),
                            char, DEFAULT_FG, italic))
    /\ opsUsed' = opsUsed + 1
    /\ UNCHANGED harnessVars

NextLru == \E char \in LruChars, italic \in BOOLEAN : LruRenderChar(char, italic)

SpecLru == InitCache /\ [][NextLru]_vars

\* the keys of the glyph cache
cachedKeys == DOMAIN textRenderer.glyphCache

\* the textures that were created for glyphs
glyphTextures ==
    { h \in 1..Len(sdl.resources) : sdl.resources[h].kind = "glyph" }

wasHit ==
    /\ observed'.glyph = "hit"
    /\ sdl'.resources = sdl.resources
    /\ cachedKeys' = cachedKeys
    /\ \A k \in cachedKeys' \ {observed'.key} :
          textRenderer'.glyphCache[observed'.key].lastUsed
              > textRenderer'.glyphCache[k].lastUsed

\* C34: requesting a (character, colour, italic) key that was requested
\* before is a cache hit: no new rasterisation happens, the cache size does
\* not grow, and the entry's last-used counter becomes greater than that of
\* every other entry.
C34_RequestedBeforeIsHit ==
    [][ observed'.glyph # "none" /\ observed'.key \in observed.requested
        => wasHit ]_vars

\* C34 (amended): requesting a key whose entry is in the cache, that is a key
\* that was requested before and was not evicted since, is a cache hit with
\* the same effects.
C34_CachedIsHit ==
    [][ observed'.glyph # "none" /\ observed'.key \in cachedKeys
        => wasHit ]_vars

\* the first of three cached glyphs was requested again: it holds the
\* greatest counter and no texture was created for it
C34_Witness ==
    /\ observed.glyph = "hit"
    /\ observed.key = getCacheKey("a", 255, 255, 255, FALSE)
    /\ Cardinality(cachedKeys) = 3
    /\ Cardinality(glyphTextures) = 3
    /\ textRenderer.glyphCache[observed.key].lastUsed = 3
    /\ { textRenderer.glyphCache[k].lastUsed : k \in cachedKeys } = {1, 2, 3}

\* ------------------------------------------------------------------------
\* Font reloads
\* ------------------------------------------------------------------------

\* C35: after a font reload, which a scale-factor change larger than the
\* epsilon causes, the glyph cache is empty, so that no glyph rasterised at
\* the previous font size is returned for a later request: every cached
\* glyph has the size of the font that is loaded.
C35_ReloadEmptiesCache ==
    [][ /\ (textRenderer'.scaleFactor # textRenderer.scaleFactor
               \/ textRenderer'.font # textRenderer.font)
           => textRenderer'.glyphCache = EmptyCache
        /\ \A k \in cachedKeys' :
              /\ textRenderer'.font # NULL
              /\ textRenderer'.glyphCache[k].width = textRenderer'.charWidth
              /\ textRenderer'.glyphCache[k].height = textRenderer'.charHeight
              /\ sdl'.resources[textRenderer'.glyphCache[k].texture].height
                     = sdl'.resources[textRenderer'.font].height
      ]_vars

\* a glyph was cached at scale 1, the scale factor became 2, and the glyph
\* was requested again: the texture of the first size is destroyed and the
\* cached glyph has the second size
C35_Witness ==
    /\ textRenderer.scaleFactor = 200
    /\ observed.glyph = "inserted"
    /\ Cardinality(cachedKeys) = 1
    /\ \A k \in cachedKeys : textRenderer.glyphCache[k].width = 16
    /\ \E h \in glyphTextures :
          sdl.resources[h].width = 8 /\ sdl.resources[h].destroys = 1

\* ------------------------------------------------------------------------
\* The text renderer on texts: one TextRenderer whose renderer draws on a
\* texture, as it does during present(), and any sequence of renderText()
\* calls in which some characters cannot be rasterised
\* ------------------------------------------------------------------------

\* the number of renderText() calls
MaxTextOps == 3

Texts == { <<"a", "b">>, <<"b", " ", "a">>, <<"c", "a", "c">> }

\* the sets of characters whose rasterisation fails during one call
TextBads == SUBSET {"a", "c"}

InitText ==
    /\ \E emojiFont \in BOOLEAN :
         LET w0 == [win |-> NULL, ui |-> NULL, tr |-> NULL, ap |-> NewAnsiParser,
                    ib |-> NULL, is |-> NULL, sdl |-> NewSdl(emojiFont),
                    node |-> NULL, obs |-> NothingObserved,
                    ret |-> NULL, polled |-> NULL, thrown |-> "none"]
             target(v) == [v EXCEPT !.sdl.target = v.ret]
             renderer(v) == newHandle(v, "renderer", "caller", 0, 0)
         IN  Starts([newTextRenderer(
                        target(newHandle(renderer(w0), "texture", "caller", 0, 0)),
                        100, TRUE) EXCEPT !.ret = NULL])
    /\ opsUsed = 0
    /\ HarnessOff

\* renderText(text, x, y, color, italic)
TextRenderText(text, bad) ==
    /\ opsUsed < MaxTextOps
    /\ Becomes(TextRenderer_renderText(Begin(TheWorld), text, 0, 0, DEFAULT_FG,
                                       FALSE, bad))
    /\ opsUsed' = opsUsed + 1
    /\ UNCHANGED harnessVars

NextText == \E text \in Texts, bad \in TextBads : TextRenderText(text, bad)

SpecText == InitText /\ [][NextText]_vars

\* the key of a character of the texts
textKey(char) == getCacheKey(char, DEFAULT_FG.r, DEFAULT_FG.g, DEFAULT_FG.b, FALSE)

\* the indices of the characters of text that are drawn when the characters
\* of bad cannot be rasterised: a space is not drawn, and a character of bad
\* is drawn only from the cache
drawnAt(text, bad) ==
    { i \in 1..Len(text) :
        /\ text[i] # " "
        /\ text[i] \in bad => textKey(text[i]) \in cachedKeys }

\* the drawing operations of the step
stepOps ==
    SubSeq(sdl'.surface.ops, Len(sdl.surface.ops) + 1, Len(sdl'.surface.ops))

\* C36: when rasterising one character fails nothing is drawn for that
\* cell, no error propagates to the caller, the glyph cache is left as it
\* was, and the other characters of the same text are still rendered, each
\* at its own cell.
C36_FailedGlyphSkipsOneCell ==
    [][ \A text \in Texts, bad \in TextBads :
          TextRenderText(text, bad)
          => /\ observed'.thrown = "none"
             /\ SubSeq(sdl'.surface.ops, 1, Len(sdl.surface.ops)) = sdl.surface.ops
             /\ Len(stepOps) = Cardinality(drawnAt(text, bad))
             /\ \A i \in drawnAt(text, bad) :
                   \E n \in 1..Len(stepOps) :
                      stepOps[n] = [op |-> "glyph", key |-> textKey(text[i]),
                                    x |-> (i - 1) * textRenderer.charWidth, y |-> 0]
             /\ \A n \in 1..Len(stepOps) :
                   \A m \in 1..(n - 1) : stepOps[m].x < stepOps[n].x
             /\ cachedKeys' = cachedKeys
                   \cup { textKey(text[i]) : i \in drawnAt(text, bad) }
             /\ \A k \in cachedKeys \ { textKey(text[i]) : i \in 1..Len(text) } :
                   textRenderer'.glyphCache[k] = textRenderer.glyphCache[k]
             /\ Len(sdl'.resources) - Len(sdl.resources)
                   = Cardinality(cachedKeys' \ cachedKeys)
      ]_vars

\* "cac" was rendered on an empty cache while c could not be rasterised:
\* only a was drawn, in the second cell, and only a is cached
C36_Witness ==
    /\ opsUsed = 1
    /\ observed.thrown = "none"
    /\ observed.glyph = "failed"
    /\ sdl.surface.ops = << [op |-> "glyph", key |-> textKey("a"),
                             x |-> textRenderer.charWidth, y |-> 0] >>
    /\ cachedKeys = { textKey("a") }

\* ------------------------------------------------------------------------
\* The window system with a configured scale: createSdlStreams({ existing,
\* scaleFactor }), then resizes, moves between displays, display mode
\* changes, setScaleFactor() and ticks
\* ------------------------------------------------------------------------

InitScale ==
    /\ \E existing \in BOOLEAN, scaleFactor \in ScaleFactors :
         LET w0 == [win |-> NULL, ui |-> NULL, tr |-> NULL, ap |-> NewAnsiParser,
                    ib |-> NewInputBridge, is |-> NewInputStream,
                    sdl |-> NewSdl(TRUE), node |-> NewNode,
                    obs |-> NothingObserved, ret |-> NULL, polled |-> NULL, thrown |-> "none"]
         IN  Starts([createSdlStreams(w0, existing, NULL, undefined, scaleFactor)
                        EXCEPT !.ret = NULL])
    /\ opsUsed = 0
    /\ HarnessOff

NextScale ==
    \/ \E size \in WindowSizes : SdlResize(size)
    \/ \E refreshRate \in RefreshRates : SdlDisplayMode(refreshRate)
    \/ \E t \in TickFinds : Tick(t)
    \/ \E scaleFactor \in ScaleFactors, fontOk \in BOOLEAN, textureOk \in BOOLEAN :
          SetScaleFactor(scaleFactor, fontOk, textureOk)

SpecScale == InitScale /\ [][NextScale]_vars

\* C37: while a user-supplied scale factor is in force (given at
\* construction or set with a non-null value), no posted resize or display
\* change and no tick that handles them changes the renderer's scale factor,
\* the user's factor, the text renderer's scale or the cell size
C37_UserScaleSticky ==
    [][ (/\ uiRenderer.userScaleFactor # NULL
         /\ \/ \E size \in WindowSizes : SdlResize(size)
            \/ \E refreshRate \in RefreshRates : SdlDisplayMode(refreshRate)
            \/ \E t \in TickFinds : Tick(t))
        => /\ uiRenderer'.scaleFactor = uiRenderer.scaleFactor
           /\ uiRenderer'.userScaleFactor = uiRenderer.userScaleFactor
           /\ uiRenderer'.scaleFactor = uiRenderer'.userScaleFactor
           /\ textRenderer'.scaleFactor = textRenderer.scaleFactor
           /\ uiRenderer'.charWidth = uiRenderer.charWidth
           /\ uiRenderer'.charHeight = uiRenderer.charHeight ]_vars

\* a factor given at construction survived a handled move to a display of
\* another scale
C37_Witness ==
    /\ opsUsed = 1
    /\ uiRenderer.userScaleFactor = 200
    /\ uiRenderer.scaleFactor = 200
    /\ sdl.displayScale = 100
    /\ sdl.windowWidth = 1600
    /\ Len(observed.resizes) = 1
    /\ observed.resizes[1].drawable.width = 1600

\* ------------------------------------------------------------------------
\* The renderer after destroy(): the window system, where the application
\* destroys the renderer and goes on using it
\* ------------------------------------------------------------------------

\* window.clear(): renderer.clear(), then renderer.present()
Clear ==
    /\ opsUsed < MaxOps
    /\ Becomes(present(SdlUiRenderer_clear(Begin(TheWorld)), {}))
    /\ opsUsed' = opsUsed + 1
    /\ UNCHANGED harnessVars

NextDestroyed ==
    \/ Destroy
    \/ \E chunk \in Chunks : \E bad \in BadCharsFor(chunk) : Write(chunk, bad)
    \/ \E output \in Chunks : ProcessAnsi(output)
    \/ \E bad \in BadCharsFor(<<>>) : Present(bad)
    \/ Clear
    \/ \E size \in WindowSizes : SdlResize(size)
    \/ \E t \in TickFinds : Tick(t)
    \/ \E scaleFactor \in ScaleFactors, fontOk \in BOOLEAN, textureOk \in BOOLEAN :
          SetScaleFactor(scaleFactor, fontOk, textureOk)
    \/ Reset

SpecDestroyed == Init /\ [][NextDestroyed]_vars

\* destroy() has run: the renderer holds no window, renderer, texture or
\* text renderer
Destroyed ==
    /\ uiRenderer.window = NULL
    /\ uiRenderer.renderer = NULL
    /\ uiRenderer.renderTarget = NULL
    /\ ~uiRenderer.textRenderer

\* C38: after destroy() no operation of the renderer reaches the native
\* side: nothing is created or destroyed, the render target, the draw
\* colour, the texture, the back buffer and the screen stay as they were,
\* the fonts and the glyph cache are not touched, nothing is thrown and the
\* renderer still holds no handle
C38_DestroyedRendererIsInert ==
    [][ Destroyed
        => /\ Destroyed'
           /\ sdl'.resources = sdl.resources
           /\ sdl'.target = sdl.target
           /\ sdl'.drawColor = sdl.drawColor
           /\ sdl'.surface = sdl.surface
           /\ sdl'.backbuffer = sdl.backbuffer
           /\ sdl'.screen = sdl.screen
           /\ textRenderer' = textRenderer
           /\ observed'.thrown = "none"
           /\ ~observed'.badHandle ]_vars

\* a chunk was written to the destroyed renderer: its commands are queued
\* and the write completed
C38_Witness ==
    /\ Destroyed
    /\ observed.callback = "null"
    /\ uiRenderer.pendingCommands # <<>>
    /\ \A h \in 1..Len(sdl.resources) :
         sdl.resources[h].owner = "library" => sdl.resources[h].destroys = 1

\* the interval timers that were set and not cleared
activeTimers == { h \in 1..Len(node.timers) : node.timers[h].clears = 0 }

\* C39: at every moment at most one interval timer of the event loop is
\* active; on an open window it is the one the window holds, and on a closed
\* window there is none and the window holds none
C39_AtMostOneTimer ==
    /\ Cardinality(activeTimers) <= 1
    /\ ~sdlWindow.closed => activeTimers = {sdlWindow.eventLoopHandle}
    /\ sdlWindow.closed => activeTimers = {} /\ sdlWindow.eventLoopHandle = NULL

\* the refresh rate changed, the loop was restarted and the listener of
\* frameRateChange closed the window: both timers are cleared
C39_Witness ==
    /\ sdlWindow.closed
    /\ Len(node.timers) = 2
    /\ node.timers[1].clears = 1
    /\ node.timers[2].clears = 1
    /\ node.timers[1].intervalMs # node.timers[2].intervalMs
    /\ observed.closeCalls = 1

\* the textures the glyph cache holds
cachedTextures == { textRenderer.glyphCache[k].texture : k \in cachedKeys }

\* C40: every texture in the glyph cache is a glyph texture that was not
\* destroyed, no two entries hold the same texture, every glyph texture
\* ever created is in the cache or was destroyed, and none was destroyed
\* more than once
C40_GlyphTexturesAccounted ==
    /\ cachedTextures \subseteq glyphTextures
    /\ \A h \in cachedTextures : sdl.resources[h].destroys = 0
    /\ Cardinality(cachedTextures) = Cardinality(cachedKeys)
    /\ \A h \in glyphTextures \ cachedTextures : sdl.resources[h].destroys = 1
    /\ \A h \in glyphTextures : sdl.resources[h].destroys <= 1

\* after an eviction the full cache holds live textures beside the
\* destroyed ones
C40_Witness ==
    /\ observed.glyph = "evicted"
    /\ Cardinality(cachedKeys) = MAX_GLYPH_CACHE_SIZE
    /\ Cardinality(glyphTextures \ cachedTextures) = MAX_GLYPH_CACHE_SIZE \div GLYPH_CACHE_EVICT_DIVISOR

====
